---- MODULE Spec2Model ----
(***************************************************************************)
(* Pinterest Trends Visualizer: the aggregation-and-analytics pipeline of  *)
(* App.tsx (merge of keyword series, analysis window, projection into      *)
(* display records) together with the CSV aggregation of csvParser.ts.     *)
(*                                                                         *)
(* Representation of JavaScript values:                                    *)
(*   - a value that may be null/undefined is a set: {} is null, {v} is v;  *)
(*   - a timestamp (number of ms since the epoch, UTC-midnight normalised  *)
(*     by parseDateToTimestamp) is its UTC day, written YYYYMMDD;          *)
(*   - a Date object is [day |-> its UTC day, ms |-> ms within the day];   *)
(*   - a number produced by toFixed(2) is an integer count of hundredths.  *)
(***************************************************************************)
EXTENDS Integers, Sequences, FiniteSets, Bags, TLC

VARIABLES
    rawAggregates,          \* AggregatedData | null
    latestOverallDataDate,  \* number | null
    currentDataSourceType,  \* 'csv' | 'api' | 'mixed' | null
    displayableTrends,      \* KeywordTrendData[]
    analysisStartDate,      \* Date | null
    analysisEndDate,        \* Date | null
    isLoading,
    error,
    analysisWindowMonths,
    movingAverageWindowPoints,
    pending,                \* bag of the handlers suspended at their await
    prevAggs,               \* history: the store the last merge started from
    incomingAggs,           \* history: the data the last merge brought in
    delivered,              \* history: metadata entries delivered per keyword
    ingests,                \* history: number of uploads and fetches started
    fnArgs,                 \* argument of the function under study
    fnRet,                  \* its result
    seasonalPeakThresholdPct,
    volatilityCVThresholdPct,
    geminiApiKey,
    storedSettings,         \* localStorage: the saved settings, or none
    settingsDraft,          \* the fields of the open SettingsModal, or none
    searchTerm,
    activePeakMonthFilter,  \* string | null
    geminiAnalysisResult,   \* string | null
    isGeminiAnalysisModalOpen

appVars == <<rawAggregates, latestOverallDataDate, currentDataSourceType,
             displayableTrends, analysisStartDate, analysisEndDate, isLoading,
             error, analysisWindowMonths, movingAverageWindowPoints, pending>>
histVars == <<prevAggs, incomingAggs, delivered, ingests>>
fnVars == <<fnArgs, fnRet>>
settingsVars == <<seasonalPeakThresholdPct, volatilityCVThresholdPct, geminiApiKey,
                  storedSettings, settingsDraft>>
viewVars == <<searchTerm, activePeakMonthFilter>>
geminiVars == <<geminiAnalysisResult, isGeminiAnalysisModalOpen>>
uiVars == <<settingsVars, viewVars, geminiVars>>
vars == <<appVars, histVars, fnVars, uiVars>>

Null == {}
Some(v) == {v}
Val(o) == CHOOSE v \in o : TRUE

-----------------------------------------------------------------------------
(* ECMAScript time arithmetic (ECMA-262, "Date objects") at day            *)
(* granularity.  A day is written as the number YYYYMMDD of its UTC        *)
(* calendar date, which orders days as their ms timestamps do.             *)

DaysInYear(y) ==
    IF y % 4 # 0 THEN 365
    ELSE IF y % 100 # 0 THEN 366
    ELSE IF y % 400 # 0 THEN 365
    ELSE 366

\* Days of month m (0-based) of year y.
DaysInMonth(y, m) ==
    IF m = 1 THEN DaysInYear(y) - 337
    ELSE IF m \in {3, 5, 8, 10} THEN 30
    ELSE 31

YearFromTime(day) == day \div 10000
MonthFromTime(day) == ((day \div 100) % 100) - 1
DateFromTime(day) == day % 100

RECURSIVE MakeDay(_, _, _)
\* MakeDay(year, month, date): month and date may lie outside their ranges
\* and carry into the year and the month.
MakeDay(year, month, date) ==
    LET ym == year + (month \div 12)
        mn == month % 12
    IN  IF date < 1
        THEN MakeDay(ym, mn - 1,
                     date + DaysInMonth(ym + ((mn - 1) \div 12), (mn - 1) % 12))
        ELSE IF date > DaysInMonth(ym, mn)
        THEN MakeDay(ym, mn + 1, date - DaysInMonth(ym, mn))
        ELSE ym * 10000 + (mn + 1) * 100 + date

\* MakeTime(hour, min, sec, ms): the ms within the day.
MakeTime(h, mi, s, ms) == ((h * 60 + mi) * 60 + s) * 1000 + ms

\* Date.UTC(y, m, d) as a timestamp.
DateUTC(y, m, d) == MakeDay(y, m, d)

\* new Date(timestamp)
NewDate(ts) == [day |-> ts, ms |-> 0]

\* Date.prototype.setUTCMonth(month): the day of the month is kept, so a day
\* the target month does not have carries into the following month.
SetUTCMonth(dt, month) ==
    [dt EXCEPT !.day = MakeDay(YearFromTime(dt.day), month, DateFromTime(dt.day))]

SetUTCDate(dt, date) ==
    [dt EXCEPT !.day = MakeDay(YearFromTime(dt.day), MonthFromTime(dt.day), date)]

SetUTCHours(dt, h, mi, s, ms) == [dt EXCEPT !.ms = MakeTime(h, mi, s, ms)]

\* a.getTime() <= b.getTime()
DateLE(a, b) == a.day < b.day \/ (a.day = b.day /\ a.ms <= b.ms)

-----------------------------------------------------------------------------
(* The analysis-window part of the recompute effect.                       *)

\* if (latestOverallDataDate): null and the number 0 (the epoch) are falsy.
Truthy(ts) == ts # Null /\ Val(ts) # DateUTC(1970, 0, 1)

AnalysisEnd(latest) ==
    LET latestDateObj == NewDate(latest)
    IN  [day |-> MakeDay(YearFromTime(latestDateObj.day),
                         MonthFromTime(latestDateObj.day) + 1, 0),
         ms |-> MakeTime(23, 59, 59, 999)]

AnalysisStart(latest, windowMonths) ==
    LET currentAnalysisEnd == AnalysisEnd(latest)
        moved == SetUTCMonth(currentAnalysisEnd,
                     MonthFromTime(currentAnalysisEnd.day) - (windowMonths - 1))
    IN  SetUTCHours(SetUTCDate(moved, 1), 0, 0, 0, 0)

-----------------------------------------------------------------------------
(* Keywords, metadata entries and the series store (types.ts).             *)

\* The keywords of the model, listed in the order localeCompare gives them.
KeywordOrder == <<"boho decor", "pumpkin decor", "wall art">>
Keywords == {KeywordOrder[i] : i \in 1 .. Len(KeywordOrder)}
KeywordIndex(k) == CHOOSE i \in 1 .. Len(KeywordOrder) : KeywordOrder[i] = k

\* a.localeCompare(b): negative, zero or positive.
LocaleCompare(a, b) == KeywordIndex(a) - KeywordIndex(b)

\* new Map<number, number>()
EmptyMap == [t \in {} |-> 0]

\* A map whose set keeps the value a key already has.
MapSetKeepsFirst(pm, t, v) ==
    [u \in DOMAIN pm \cup {t} |-> IF u \in DOMAIN pm THEN pm[u] ELSE v]

\* map.set(t, v)
MapSet(pm, t, v) == [u \in DOMAIN pm \cup {t} |-> IF u = t THEN v ELSE pm[u]]

\* {} as AggregatedData
EmptyAggregates == [k \in {} |-> 0]

Range(s) == {s[i] : i \in 1 .. Len(s)}

-----------------------------------------------------------------------------
(* csvParser.ts.  A report file is taken after Papa.parse and the header   *)
(* detection: reportDate is what getReportDateFromCsvContent returns,      *)
(* headerFound is findHeaderRowIndex(...) # -1, dateCols are the           *)
(* timestamps parseDateToTimestamp gives for the date headers, in column   *)
(* order, and a row is its trimmed keyword cell, its rank cell after       *)
(* parseInt (Null when absent or NaN) and one cell per date column after   *)
(* parseInt (Null when blank or NaN).                                      *)

RECURSIVE ApplyCells(_, _, _, _, _)
\* dateColumns.forEach of one row: acc is [pointsMap, latest].
ApplyCells(acc, dateCols, cells, i, n) ==
    IF i > n THEN acc
    ELSE LET next ==
                 IF cells[i] = Null THEN acc
                 ELSE [pointsMap |-> MapSet(acc.pointsMap, dateCols[i], Val(cells[i])),
                       latest |-> IF acc.latest = Null \/ dateCols[i] > Val(acc.latest)
                                  THEN Some(dateCols[i]) ELSE acc.latest]
         IN  ApplyCells(next, dateCols, cells, i + 1, n)

\* The body of dataRowsAsObjects.forEach: acc is [agg, latest].
ApplyRow(acc, file, row) ==
    IF row.keyword = "" THEN acc
    ELSE LET k == row.keyword
             entry == IF k \in DOMAIN acc.agg THEN acc.agg[k]
                      ELSE [keyword |-> k, pointsMap |-> EmptyMap,
                            metadataEntries |-> <<>>]
             meta == [rank |-> row.rank, reportDate |-> file.reportDate,
                      dataSource |-> "csv"]
             cellsDone == ApplyCells([pointsMap |-> entry.pointsMap,
                                      latest |-> acc.latest],
                                     file.dateCols, row.cells, 1, Len(file.dateCols))
             entry2 == [keyword |-> k, pointsMap |-> cellsDone.pointsMap,
                        metadataEntries |-> Append(entry.metadataEntries, meta)]
         IN  [agg |-> [j \in DOMAIN acc.agg \cup {k} |->
                          IF j = k THEN entry2 ELSE acc.agg[j]],
              latest |-> cellsDone.latest]

RECURSIVE ApplyRows(_, _, _)
ApplyRows(acc, file, i) ==
    IF i > Len(file.rows) THEN acc
    ELSE ApplyRows(ApplyRow(acc, file, file.rows[i]), file, i + 1)

\* The body of csvFileContents.forEach: a file without a header row is skipped.
ApplyFile(acc, file) ==
    IF ~file.headerFound THEN acc ELSE ApplyRows(acc, file, 1)

RECURSIVE ApplyFiles(_, _, _)
ApplyFiles(acc, files, i) ==
    IF i > Len(files) THEN acc
    ELSE ApplyFiles(ApplyFile(acc, files[i]), files, i + 1)

MaxTimestamp(agg) ==
    LET all == UNION {DOMAIN agg[k].pointsMap : k \in DOMAIN agg}
    IN  IF all = {} THEN Null ELSE Some(CHOOSE t \in all : \A u \in all : u <= t)

\* parseAndAggregateCsvData(csvFileContents, existingAggregatedData); of the
\* result, rawAggregates and latestDataDate are what App.tsx reads.
parseAndAggregateCsvData(csvFileContents, existingAggregatedData) ==
    LET start == IF existingAggregatedData = Null
                 THEN [agg |-> EmptyAggregates, latest |-> Null]
                 ELSE [agg |-> Val(existingAggregatedData),
                       latest |-> MaxTimestamp(Val(existingAggregatedData))]
        done == ApplyFiles(start, csvFileContents, 1)
    IN  [rawAggregates |-> done.agg, latestDataDate |-> done.latest]

-----------------------------------------------------------------------------
(* pinterestAPIService.ts                                                  *)

\* Date.prototype.toISOString and new Date(isoString), at day granularity.
ToISOString(day) == <<YearFromTime(day), MonthFromTime(day) + 1, DateFromTime(day)>>
ParseISO(iso) == DateUTC(iso[1], iso[2] - 1, iso[3])

\* The reconstitution of the transport format: reportDate strings become
\* dates, the points object becomes a Map.
fetchTrendsFromBackend(dataForTransport) ==
    [k \in DOMAIN dataForTransport |->
        [keyword |-> dataForTransport[k].keyword,
         pointsMap |-> dataForTransport[k].pointsMap,
         metadataEntries |->
            [i \in 1 .. Len(dataForTransport[k].metadataEntries) |->
                [dataForTransport[k].metadataEntries[i] EXCEPT
                    !.reportDate = ParseISO(@)]]]]

-----------------------------------------------------------------------------
(* mergeAggregatedData (App.tsx)                                           *)

\* JSON.parse(JSON.stringify(pointsMap)): a Map has no enumerable own
\* properties, so it is written as "{}" and read back as an object without
\* entries; new Map(Object.entries({})) is then the empty map.
JsonClonePointsMap(pointsMap) == EmptyMap

\* JSON.stringify writes a Date as its ISO string; new Date(m.reportDate)
\* reads it back.
JsonCloneMetadata(m) == [m EXCEPT !.reportDate = ParseISO(ToISOString(@))]

\* One entry of result after the deep copy and the repair loop over it.
JsonCloneEntry(e) ==
    [keyword |-> e.keyword,
     pointsMap |-> JsonClonePointsMap(e.pointsMap),
     metadataEntries |-> [i \in 1 .. Len(e.metadataEntries) |->
                             JsonCloneMetadata(e.metadataEntries[i])]]

\* A new keyword inserted with a fresh, empty map.
InsertNewKeywordEmpty(newEntry) ==
    [keyword |-> newEntry.keyword,
     pointsMap |-> EmptyMap,
     metadataEntries |-> newEntry.metadataEntries]

\* result[keyword] = { ...newAggs[keyword], pointsMap: new Map(...) }
InsertNewKeyword(newEntry) ==
    [keyword |-> newEntry.keyword,
     pointsMap |-> newEntry.pointsMap,
     metadataEntries |-> newEntry.metadataEntries]

\* newAggs[keyword].pointsMap.forEach((value, date) => result.set(date, value))
MergePointsMap(resultMap, newMap) ==
    [t \in DOMAIN resultMap \cup DOMAIN newMap |->
        IF t \in DOMAIN newMap THEN newMap[t] ELSE resultMap[t]]

\* The incoming entries replacing the log.
MergeMetadataReplaces(resultEntries, newEntries) == newEntries

\* [...result.metadataEntries, ...newAggs.metadataEntries]
MergeMetadataEntries(resultEntries, newEntries) == resultEntries \o newEntries

mergeAggregatedData(existingAggs, newAggs) ==
    LET result == IF existingAggs = Null THEN EmptyAggregates
                  ELSE [k \in DOMAIN Val(existingAggs) |->
                           JsonCloneEntry(Val(existingAggs)[k])]
    IN  [k \in DOMAIN result \cup DOMAIN newAggs |->
            IF k \notin DOMAIN newAggs THEN result[k]
            ELSE IF k \notin DOMAIN result THEN InsertNewKeyword(newAggs[k])
            ELSE [keyword |-> result[k].keyword,
                  pointsMap |-> MergePointsMap(result[k].pointsMap,
                                               newAggs[k].pointsMap),
                  metadataEntries |->
                      MergeMetadataEntries(result[k].metadataEntries,
                                           newAggs[k].metadataEntries)]]

-----------------------------------------------------------------------------
(* IEEE 754 binary64, the arithmetic of a JavaScript number, for the       *)
(* non-negative finite values the analytics work on.  A natural number of  *)
(* any size is a sequence of limbs in base Base, least significant first,  *)
(* without leading zero limbs; a double is [m, e] and stands for m * 2^e,  *)
(* m of at most 53 bits (or 2^53 itself).                                  *)

Base == 64 * 64
LimbBits == 6 + 6
MantissaBits == 50 + 3

Pow2(n) == 2 ^ n

\* F(e), the value of e found before F is entered
Bind(e, F(_)) == CHOOSE r \in {F(x) : x \in {e}} : TRUE

\* Limb i of a, 0 beyond its length
Limb(a, i) == IF i >= 1 /\ i <= Len(a) THEN a[i] ELSE 0

\* a without its leading zero limbs
BigNorm(a) ==
    LET used == {i \in 1 .. Len(a) : a[i] # 0}
    IN  IF used = {} THEN <<>>
        ELSE SubSeq(a, 1, CHOOSE i \in used : \A j \in used : j <= i)

\* n < 2^31
BigFromNat(n) == BigNorm(<<n % Base, (n \div Base) % Base, n \div (Base * Base)>>)

\* The integer a number of at most three limbs stands for.
BigToNat(a) == Limb(a, 1) + Base * Limb(a, 2) + Base * Base * Limb(a, 3)

\* a + b: limb j receives a carry when a lower limb generates one and every
\* limb in between passes it on.
BigAdd(a, b) ==
    LET n == IF Len(a) > Len(b) THEN Len(a) ELSE Len(b)
        Carry(j) == \E i \in 1 .. j - 1 :
                        /\ Limb(a, i) + Limb(b, i) >= Base
                        /\ \A t \in i + 1 .. j - 1 : Limb(a, t) + Limb(b, t) = Base - 1
    IN  BigNorm([j \in 1 .. n + 1 |->
                    (Limb(a, j) + Limb(b, j) + (IF Carry(j) THEN 1 ELSE 0)) % Base])

\* a - b for a >= b, with the borrows found like the carries of BigAdd
BigSub(a, b) ==
    LET Borrow(j) == \E i \in 1 .. j - 1 :
                         /\ Limb(a, i) < Limb(b, i)
                         /\ \A t \in i + 1 .. j - 1 : Limb(a, t) = Limb(b, t)
    IN  BigNorm([j \in 1 .. Len(a) |->
                    (Limb(a, j) - Limb(b, j) - (IF Borrow(j) THEN 1 ELSE 0) + Base)
                        % Base])

\* a * Base^n
BigShiftLimbs(a, n) == IF a = <<>> THEN a ELSE [i \in 1 .. n |-> 0] \o a

\* a * k for 0 <= k < 2^19: every product of a limb and k is split into
\* three limbs, and the three rows are added.
BigMulSmall(a, k) ==
    LET low == [i \in 1 .. Len(a) |-> (a[i] * k) % Base]
        middle == [i \in 1 .. Len(a) |-> ((a[i] * k) \div Base) % Base]
        high == [i \in 1 .. Len(a) |-> (a[i] * k) \div (Base * Base)]
    IN  IF k < Base
        THEN BigAdd(<<>> \o low, <<0>> \o middle)
        ELSE Bind(BigAdd(<<>> \o low, <<0>> \o middle), LAMBDA lower :
                 BigAdd(lower, <<0, 0>> \o high))

RECURSIVE BigMulFrom(_, _, _)
BigMulFrom(a, b, i) ==
    IF i > Len(b) THEN <<>>
    ELSE Bind(BigMulFrom(a, b, i + 1), LAMBDA higher :
         Bind(BigMulSmall(a, b[i]), LAMBDA row :
             BigAdd(BigShiftLimbs(row, i - 1), higher)))

BigMul(a, b) == BigMulFrom(a, b, 1)

\* -1, 0, 1 as a < b, a = b, a > b
BigCmp(a, b) ==
    LET differ == {i \in 1 .. Len(a) : Limb(a, i) # Limb(b, i)}
        top == CHOOSE i \in differ : \A j \in differ : j <= i
    IN  IF Len(a) < Len(b) THEN -1
        ELSE IF Len(a) > Len(b) THEN 1
        ELSE IF differ = {} THEN 0
        ELSE IF a[top] < b[top] THEN -1 ELSE 1

\* The number of bits of n < Base
SmallBitLen(n) ==
    CHOOSE k \in 0 .. LimbBits : n < Pow2(k) /\ (k = 0 \/ n >= Pow2(k - 1))

BigBitLen(a) ==
    IF a = <<>> THEN 0 ELSE LimbBits * (Len(a) - 1) + SmallBitLen(a[Len(a)])

\* a * 2^n
BigShiftLeft(a, n) ==
    LET bits == n % LimbBits
    IN  BigShiftLimbs(
            BigNorm([j \in 1 .. Len(a) + 1 |->
                        ((Limb(a, j) * Pow2(bits)) % Base)
                            + (Limb(a, j - 1) \div Pow2(LimbBits - bits))]),
            n \div LimbBits)

\* floor(a / 2^n)
BigShiftRight(a, n) ==
    LET bits == n % LimbBits
        limbs == n \div LimbBits
    IN  BigNorm([j \in 1 .. Len(a) - limbs |->
                    (Limb(a, j + limbs) \div Pow2(bits))
                        + (Limb(a, j + limbs + 1) % Pow2(bits)) * Pow2(LimbBits - bits)])

BigIsOdd(a) == a # <<>> /\ a[1] % 2 = 1

\* The greatest d with d * b <= rem, and d * b, for rem < b * Base and the
\* top limb of b at least Base / 2: d is at most 2 below the quotient of the
\* top limbs.
BigDigit(rem, b) ==
    LET n == Len(b)
        estimate == (Limb(rem, n + 1) * Base + Limb(rem, n)) \div b[n]
    IN  Bind(IF estimate > Base - 1 THEN Base - 1 ELSE estimate, LAMBDA top :
        Bind(BigMulSmall(b, top), LAMBDA product :
            IF BigCmp(product, rem) <= 0 THEN [digit |-> top, product |-> product]
            ELSE Bind(BigSub(product, b), LAMBDA lower :
                     IF BigCmp(lower, rem) <= 0
                     THEN [digit |-> top - 1, product |-> lower]
                     ELSE [digit |-> top - 2, product |-> BigSub(lower, b)])))

RECURSIVE BigDivModFrom(_, _, _)
\* Long division of the limbs i .. Len(a) of a, one limb of the quotient at
\* a time from the most significant: [q, r].  The Len(b) - 1 top limbs of a
\* are below b and give no quotient limb.
BigDivModFrom(a, b, i) ==
    IF i > Len(a) - Len(b) + 1
    THEN [q |-> <<>>, r |-> BigNorm(SubSeq(a, IF i > Len(a) THEN Len(a) + 1 ELSE i,
                                           Len(a)))]
    ELSE Bind(BigDivModFrom(a, b, i + 1), LAMBDA high :
         Bind(BigNorm(<<a[i]>> \o high.r), LAMBDA rem :
         Bind(BigDigit(rem, b), LAMBDA d :
             [q |-> <<d.digit>> \o high.q, r |-> BigSub(rem, d.product)])))

\* [q, r] with a = q * b + r and r < b, for b > 0; both are first scaled by
\* the power of 2 that brings the top limb of b to Base / 2 or more.
BigDivMod(a, b) ==
    Bind(LimbBits - SmallBitLen(b[Len(b)]), LAMBDA shift :
    Bind(BigShiftLeft(a, shift), LAMBDA dividend :
    Bind(BigShiftLeft(b, shift), LAMBDA divisor :
    Bind(BigDivModFrom(dividend, divisor, 1), LAMBDA d :
        [q |-> BigNorm(d.q), r |-> BigShiftRight(d.r, shift)]))))

\* The double nearest to m * 2^e, the even mantissa of two equally near ones
\* (subnormal results and overflow do not occur for the values here).
RoundToDouble(m, e) ==
    Bind(BigBitLen(m) - MantissaBits, LAMBDA drop :
        IF drop <= 0 THEN [m |-> m, e |-> e]
        ELSE Bind(BigShiftRight(m, drop - 1), LAMBDA withRoundBit :
             Bind(BigShiftRight(withRoundBit, 1), LAMBDA kept :
             Bind(BigShiftLeft(withRoundBit, drop - 1), LAMBDA restored :
                 LET roundBit == BigIsOdd(withRoundBit)
                     sticky == BigCmp(restored, m) # 0
                     up == roundBit /\ (sticky \/ BigIsOdd(kept))
                 IN  [m |-> IF up THEN BigAdd(kept, <<1>>) ELSE kept,
                      e |-> e + drop]))))

\* An integer as a double (exact below 2^31).
DoubleFromInt(n) == [m |-> BigFromNat(n), e |-> 0]

\* x * y
DoubleMul(x, y) ==
    Bind(BigMul(x.m, y.m), LAMBDA product : RoundToDouble(product, x.e + y.e))

\* x / y for y # 0: the quotient is taken to more than 53 bits and its last
\* bit records whether anything was left over.
DoubleDiv(x, y) ==
    IF x.m = <<>> THEN x
    ELSE LET need == MantissaBits + 3 + BigBitLen(y.m) - BigBitLen(x.m)
         IN  Bind(IF need > 0 THEN need ELSE 0, LAMBDA scale :
             Bind(BigShiftLeft(x.m, scale), LAMBDA dividend :
             Bind(BigDivMod(dividend, y.m), LAMBDA d :
             Bind(BigMulSmall(d.q, 2), LAMBDA doubled :
             Bind(BigAdd(doubled, IF d.r = <<>> THEN <<>> ELSE <<1>>), LAMBDA q :
                 RoundToDouble(q, x.e - y.e - scale - 1))))))

\* x / k for a positive integer k
DoubleDivInt(x, k) == Bind(DoubleFromInt(k), LAMBDA y : DoubleDiv(x, y))

\* -1, 0, 1 as x < y, x = y, x > y
DoubleCmp(x, y) ==
    LET low == IF x.e < y.e THEN x.e ELSE y.e
    IN  Bind(BigShiftLeft(x.m, x.e - low), LAMBDA left :
        Bind(BigShiftLeft(y.m, y.e - low), LAMBDA right : BigCmp(left, right)))

\* The literals 1.1 and 0.9: the doubles nearest to them.
Double1_1 == [m |-> <<2458, 2457, 2457, 2457, 17>>, e |-> -52]
Double0_9 == [m |-> <<3277, 3276, 3276, 3276, 28>>, e |-> -53]

-----------------------------------------------------------------------------
(* Analytics helper functions (App.tsx)                                    *)

RECURSIVE SumOfTerms(_, _, _)
\* terms[from] + ... + terms[to], summed by halves
SumOfTerms(terms, from, to) ==
    IF from > to THEN 0
    ELSE IF from = to THEN terms[from]
    ELSE SumOfTerms(terms, from, (from + to) \div 2)
             + SumOfTerms(terms, ((from + to) \div 2) + 1, to)

\* points.slice(from - 1, to).reduce((acc, p) => acc + p.value, 0)
SumValues(points, from, to) ==
    SumOfTerms([i \in 1 .. Len(points) |-> points[i].value], from, to)

\* parseFloat((sum / n).toFixed(2)) in hundredths: toFixed takes the nearest
\* two-decimal number and the larger one on a tie.
ToFixed2(sum, n) == (200 * sum + n) \div (2 * n)

\* Each average dated at the first point of its window.
calculateMovingAverageDatedFirst(points, windowSize) ==
    IF Len(points) < windowSize \/ windowSize < 2 THEN <<>>
    ELSE [i \in 1 .. (Len(points) - windowSize + 1) |->
             [date |-> points[i].date,
              value |-> ToFixed2(SumValues(points, i, i + windowSize - 1),
                                 windowSize)]]

calculateMovingAverage(points, windowSize) ==
    IF Len(points) < windowSize \/ windowSize < 2 THEN <<>>
    ELSE [i \in 1 .. (Len(points) - windowSize + 1) |->
             [date |-> points[i + windowSize - 1].date,
              value |-> ToFixed2(SumValues(points, i, i + windowSize - 1),
                                 windowSize)]]

\* Number.prototype.toFixed(digits) read back by parseFloat, as the integer
\* count of 10^-digits units, scale being 10^digits: the integer nearest to
\* x * scale, the larger one when two are equally near.
DoubleToFixed(x, scale) ==
    Bind(BigMulSmall(x.m, scale), LAMBDA scaled :
        IF x.e >= 0 THEN BigShiftLeft(scaled, x.e)
        ELSE Bind(BigMulSmall(scaled, 2), LAMBDA doubled :
             Bind(BigShiftLeft(<<1>>, -x.e), LAMBDA half :
             Bind(BigAdd(doubled, half), LAMBDA sum :
                 BigShiftRight(sum, 1 - x.e)))))

\* The literals 0.5 and 0.1.
Double0_5 == [m |-> <<1>>, e |-> -1]
Double0_1 == [m |-> <<2458, 2457, 2457, 2457, 25>>, e |-> -56]

\* sumXY from point i on: the index of the i-th point is i - 1
SumIndexTimesValue(points, i) ==
    SumOfTerms([j \in 1 .. Len(points) |-> (j - 1) * points[j].value], i, Len(points))

SumSquares(points, i) ==
    SumOfTerms([j \in 1 .. Len(points) |-> points[j].value * points[j].value],
               i, Len(points))

\* calculateLinearRegressionSlope: Null for 'N/A', else the sign and the
\* magnitude of the double (n*sumXY - sumX*sumY) / (n*sumXX - sumX*sumX); the
\* sums are integers and exact, and the divisor is positive from 2 points on.
calculateLinearRegressionSlope(points) ==
    IF Len(points) < 2 THEN Null
    ELSE LET n == Len(points)
             sumX == (n * (n - 1)) \div 2
             sumY == SumValues(points, 1, n)
             sumXY == SumIndexTimesValue(points, 1)
             sumXX == ((n - 1) * n * (2 * n - 1)) \div 6
             num == n * sumXY - sumX * sumY
             den == n * sumXX - sumX * sumX
         IN  Bind(IF num < 0 THEN -num ELSE num, LAMBDA magnitude :
             Bind(DoubleFromInt(magnitude), LAMBDA dividend :
             Bind(DoubleDivInt(dividend, den), LAMBDA quotient :
                 Some([neg |-> num < 0, abs |-> quotient]))))

\* calculateAverageValue: Null for 'N/A', else the average in hundredths.
calculateAverageValue(points) ==
    IF Len(points) = 0 THEN Null
    ELSE Bind(SumValues(points, 1, Len(points)), LAMBDA sum :
         Bind(DoubleDivInt(DoubleFromInt(sum), Len(points)), LAMBDA average :
         Bind(DoubleToFixed(average, 100), LAMBDA fixed :
             Some(BigToNat(fixed)))))

\* n * n * variance of the points, an integer: n * sum(v^2) - (sum v)^2.
ScaledVariance(points) ==
    Len(points) * SumSquares(points, 1)
        - SumValues(points, 1, Len(points)) * SumValues(points, 1, Len(points))

\* x * x for 0 <= x < 2^30: the products of the limbs of x, column by column,
\* with the carries passed upwards.
BigSquareByColumns(x) ==
    LET x0 == x % Base
        x1 == (x \div Base) % Base
        x2 == x \div (Base * Base)
        c0 == x0 * x0
        c1 == 2 * x0 * x1 + (c0 \div Base)
        c2 == 2 * x0 * x2 + x1 * x1 + (c1 \div Base)
        c3 == 2 * x1 * x2 + (c2 \div Base)
        c4 == x2 * x2 + (c3 \div Base)
    IN  BigNorm(<<c0 % Base, c1 % Base, c2 % Base, c3 % Base, c4 % Base, c4 \div Base>>)

RECURSIVE IntSqrtBetween(_, _, _)
\* The greatest x in lo .. hi with x * x <= a, a being a big natural number
\* and lo * lo <= a: the range is cut into 8 parts at every step.
IntSqrtBetween(a, lo, hi) ==
    IF lo = hi THEN lo
    ELSE LET step == ((hi - lo) \div 8) + 1
             below == {x \in {lo + k * step : k \in 0 .. 8} :
                          x <= hi /\ Bind(BigSquareByColumns(x), LAMBDA square :
                                          BigCmp(square, a) <= 0)}
         IN  Bind(below, LAMBDA fitting :
             Bind(CHOOSE x \in fitting : \A y \in fitting : y <= x, LAMBDA from :
                 IntSqrtBetween(a, from, IF from + step - 1 > hi THEN hi
                                         ELSE from + step - 1)))

\* calculateCoefficientOfVariation: Null for 'N/A', else the result in
\* hundredths.  mean is the average already rounded to two decimals (meanH
\* hundredths); stdDev is sqrt(d) / n for d the scaled variance; the result
\* is ((stdDev / mean) * 100).toFixed(2), that is the integer nearest to
\* 10^6 * sqrt(d) / (n * meanH).  The doubles of the code are within 2^-49
\* of these reals, which moves no result across a rounding boundary of
\* toFixed for series of the sizes and values used here.
calculateCoefficientOfVariation(points) ==
    IF Len(points) < 2 THEN Null
    ELSE Bind(calculateAverageValue(points), LAMBDA mean :
             IF mean = Null \/ Val(mean) = 0 THEN Null
             ELSE \* target is 4 * 10^12 * d
                  Bind(ScaledVariance(points), LAMBDA d :
                  Bind(BigMulSmall(BigFromNat(4 * d), 10000), LAMBDA e4 :
                  Bind(BigMulSmall(e4, 10000), LAMBDA e8 :
                  Bind(BigMulSmall(e8, 10000), LAMBDA target :
                  Bind(IntSqrtBetween(target, 0, Pow2(30)), LAMBDA root :
                      Some(((root \div (Len(points) * Val(mean))) + 1) \div 2)))))))

\* calculateRecentMomentum: the two sums are sums of integers and so exact;
\* the division by 3, the products with 1.1 and 0.9 and the comparisons are
\* those of doubles.
calculateRecentMomentum(points) ==
    IF Len(points) < 6 THEN "N/A"
    ELSE LET n == Len(points)
         IN  Bind(DoubleFromInt(SumValues(points, n - 2, n)), LAMBDA last3MonthsSum :
             Bind(DoubleFromInt(SumValues(points, n - 5, n - 3)), LAMBDA prev3MonthsSum :
             Bind(DoubleDivInt(last3MonthsSum, 3), LAMBDA last3MonthsAvg :
             Bind(DoubleDivInt(prev3MonthsSum, 3), LAMBDA prev3MonthsAvg :
             Bind(DoubleMul(prev3MonthsAvg, Double1_1), LAMBDA gainingBound :
             Bind(DoubleMul(prev3MonthsAvg, Double0_9), LAMBDA fadingBound :
                 IF DoubleCmp(last3MonthsAvg, gainingBound) = 1 THEN "gaining"
                 ELSE IF DoubleCmp(last3MonthsAvg, fadingBound) = -1 THEN "fading"
                 ELSE "stable"))))))

MONTH_NAMES_SHORT ==
    <<"Jan", "Feb", "Mar", "Apr", "May", "Jun",
      "Jul", "Aug", "Sep", "Oct", "Nov", "Dec">>

\* monthlySums[month], month counted from 0: [sum, count] over points i ..
MonthlySum(points, month, i) ==
    Bind(SelectSeq(SubSeq(points, i, Len(points)),
                   LAMBDA point : MonthFromTime(point.date) = month), LAMBDA ofMonth :
    Bind(SumValues(ofMonth, 1, Len(ofMonth)), LAMBDA sum :
        [sum |-> sum, count |-> Len(ofMonth)]))

\* parseFloat(((average / overallAverageValue) * 100).toFixed(1)) in tenths;
\* overallH is the overall average in hundredths.
SeasonalIndexValue(monthData, overallH) ==
    Bind(DoubleDivInt(DoubleFromInt(monthData.sum), monthData.count), LAMBDA average :
    Bind(DoubleDivInt(DoubleFromInt(overallH), 100), LAMBDA overallAverageValue :
    Bind(DoubleDiv(average, overallAverageValue), LAMBDA ratio :
    Bind(DoubleMul(ratio, DoubleFromInt(100)), LAMBDA percent :
    Bind(DoubleToFixed(percent, 10), LAMBDA fixed : BigToNat(fixed))))))

\* The flag of a month at or above the plain average.
IsPeakIndexAboveAverage(index, peakThresholdPct) == index >= 10 * 100

\* index >= peakIndexThreshold, index in tenths
IsPeakIndex(index, peakThresholdPct) ==
    index >= 10 * (100 + peakThresholdPct)

\* calculateSeasonalIndexes; an index is held in tenths.
calculateSeasonalIndexes(points, peakThresholdPct) ==
    LET none == [i \in 1 .. 12 |->
                    [month |-> MONTH_NAMES_SHORT[i], index |-> 0, isPeak |-> FALSE]]
    IN  IF Len(points) < 12 THEN none
        ELSE Bind(calculateAverageValue(points), LAMBDA overallAverageValue :
             IF overallAverageValue = Null \/ Val(overallAverageValue) = 0 THEN none
             ELSE SubSeq([i \in 1 .. 12 |->
                      Bind(MonthlySum(points, i - 1, 1), LAMBDA monthData :
                          IF monthData.count > 0
                          THEN Bind(SeasonalIndexValue(monthData,
                                                       Val(overallAverageValue)),
                                    LAMBDA index :
                                   [month |-> MONTH_NAMES_SHORT[i], index |-> index,
                                    isPeak |-> IsPeakIndex(index, peakThresholdPct)])
                          ELSE [month |-> MONTH_NAMES_SHORT[i], index |-> 0,
                                isPeak |-> FALSE])], 1, 12))

\* Math.max(...seasonalIndexes.map(si => si.index)) from entry i on
MaxIndex(seasonalIndexes, i) ==
    LET indexes == {seasonalIndexes[j].index : j \in i .. Len(seasonalIndexes)}
    IN  CHOOSE index \in indexes : \A other \in indexes : other <= index

\* Only the first month of the greatest index.
PrimaryPeakMonthsFirstOnly(seasonalIndexes) ==
    LET maxIndex == MaxIndex(seasonalIndexes, 1)
        hits == SelectSeq(seasonalIndexes, LAMBDA si : si.index = maxIndex)
    IN  IF maxIndex > 0 THEN <<hits[1].month>> ELSE <<>>

\* primaryPeakMonths of generateDisplayTrends
PrimaryPeakMonths(seasonalIndexes) ==
    LET maxIndex == MaxIndex(seasonalIndexes, 1)
        hits == SelectSeq(seasonalIndexes, LAMBDA si : si.index = maxIndex)
    IN  IF Len(seasonalIndexes) > 0 /\ maxIndex > 0
        THEN [i \in 1 .. Len(hits) |-> hits[i].month]
        ELSE <<>>

\* KeywordCard: {si.index === 0 ? 'N/A' : `${si.index}%`}, Null for 'N/A'
SeasonalIndexLabel(si) == IF si.index = 0 THEN Null ELSE Some(si.index)

\* slope > bound and slope < -bound for a positive bound
SlopeAbove(slope, bound) == ~slope.neg /\ DoubleCmp(slope.abs, bound) = 1
SlopeBelowMinus(slope, bound) == slope.neg /\ DoubleCmp(slope.abs, bound) = 1

\* The "Insufficient Data" label prefixed like every other one.
categorizeTrendPrefixesAll(slope, momentum, cv, cvThresholdPct) ==
    LET isVolatile == cv # Null /\ Val(cv) > 100 * cvThresholdPct
    IN  IF slope = Null \/ momentum = "N/A"
        THEN (IF isVolatile THEN "Volatile Insufficient Data" ELSE "Insufficient Data")
        ELSE "Stable / Flat"

\* categorizeTrend; slope and cv are options, cv in hundredths.  (The
\* fallback for an empty category cannot be reached: every branch sets one.)
categorizeTrend(slope, momentum, cv, cvThresholdPct) ==
    IF slope = Null \/ momentum = "N/A" THEN "Insufficient Data"
    ELSE LET isVolatile == cv # Null /\ Val(cv) > 100 * cvThresholdPct
             sl == Val(slope)
             category ==
                 IF SlopeAbove(sl, Double0_5)
                 THEN (IF momentum = "gaining" THEN "Accelerating Growth"
                       ELSE IF momentum = "stable" THEN "Strong Steady Growth"
                       ELSE "Slowing Growth")
                 ELSE IF SlopeAbove(sl, Double0_1)
                 THEN (IF momentum = "gaining" THEN "Moderate Growth, Gaining"
                       ELSE IF momentum = "stable" THEN "Steady Growth"
                       ELSE "Growth Stalling")
                 ELSE IF SlopeBelowMinus(sl, Double0_5)
                 THEN (IF momentum = "fading" THEN "Accelerating Decline"
                       ELSE IF momentum = "stable" THEN "Strong Steady Decline"
                       ELSE "Decline Slowing")
                 ELSE IF SlopeBelowMinus(sl, Double0_1)
                 THEN (IF momentum = "fading" THEN "Moderate Decline, Fading"
                       ELSE IF momentum = "stable" THEN "Steady Decline"
                       ELSE "Decline Softening")
                 ELSE (IF momentum = "gaining" THEN "Recent Uptick from Flat"
                       ELSE IF momentum = "stable" THEN "Stable / Flat"
                       ELSE "Recent Dip from Flat")
         IN  IF isVolatile THEN "Volatile " \o category ELSE category

-----------------------------------------------------------------------------
(* generateDisplayTrends (App.tsx)                                         *)

\* Array.from(pointsMap.entries()).map(...).sort((a, b) => a.date - b.date)
SortedPoints(pointsMap) ==
    [i \in 1 .. Cardinality(DOMAIN pointsMap) |->
        LET date == CHOOSE t \in DOMAIN pointsMap :
                        Cardinality({u \in DOMAIN pointsMap : u < t}) = i - 1
        IN  [date |-> date, value |-> pointsMap[date]]]

\* The comparison with >=, which lets a later entry of the same date win.
IsLaterOrSameReport(current, latest) == current.reportDate >= latest.reportDate

\* currentReportDate.getTime() > latestReportDate.getTime()
IsLaterReport(current, latest) == current.reportDate > latest.reportDate

RECURSIVE ReduceLatest(_, _, _)
\* metadataEntries.reduce((latest, current) => ...), from the second entry on.
ReduceLatest(entries, i, latest) ==
    IF i > Len(entries) THEN latest
    ELSE ReduceLatest(entries, i + 1,
                      IF IsLaterReport(entries[i], latest) THEN entries[i] ELSE latest)

DeterminedDataSource(entries) ==
    LET dataSources == {entries[i].dataSource : i \in 1 .. Len(entries)}
    IN  IF "api" \in dataSources /\ "csv" \in dataSources THEN "mixed"
        ELSE IF "api" \in dataSources THEN "api"
        ELSE "csv"

LatestMetadata(entries) ==
    IF Len(entries) > 0 THEN ReduceLatest(entries, 2, entries[1])
    ELSE [rank |-> Null, reportDate |-> DateUTC(1970, 0, 1),
          dataSource |-> DeterminedDataSource(entries)]

\* The window open at its start.
InAnalysisWindowOpenStart(date, start, end) ==
    ~DateLE(NewDate(date), start) /\ DateLE(NewDate(date), end)

\* point.date >= start.getTime() && point.date <= end.getTime()
InAnalysisWindow(date, start, end) ==
    DateLE(start, NewDate(date)) /\ DateLE(NewDate(date), end)

PointsForAnalysisCalc(allPoints, start, end) ==
    IF start # Null /\ end # Null
    THEN SelectSeq(allPoints, LAMBDA p : InAnalysisWindow(p.date, Val(start), Val(end)))
    ELSE allPoints

\* The direction with the bounds themselves counted as upward and downward.
TrendDirectionFromBoundOn(slope) ==
    IF slope = Null THEN "N/A"
    ELSE IF ~Val(slope).neg /\ DoubleCmp(Val(slope).abs, Double0_1) >= 0 THEN "upward"
    ELSE IF Val(slope).neg /\ DoubleCmp(Val(slope).abs, Double0_1) >= 0 THEN "downward"
    ELSE "flat"

\* slope === 'N/A' ? 'N/A' : (slope > 0.1 ? 'upward' : (slope < -0.1 ? ...))
TrendDirection(slope) ==
    IF slope = Null THEN "N/A"
    ELSE IF SlopeAbove(Val(slope), Double0_1) THEN "upward"
    ELSE IF SlopeBelowMinus(Val(slope), Double0_1) THEN "downward"
    ELSE "flat"

\* The statistics the second map of generateDisplayTrends computes over the
\* points of the analysis window.
WindowAnalytics(allPoints, start, end, volatilityThreshPct) ==
    Bind(PointsForAnalysisCalc(allPoints, start, end), LAMBDA pointsForAnalysisCalc :
    Bind(calculateLinearRegressionSlope(pointsForAnalysisCalc), LAMBDA slope :
    Bind(calculateCoefficientOfVariation(pointsForAnalysisCalc), LAMBDA cv :
    Bind(calculateRecentMomentum(pointsForAnalysisCalc), LAMBDA momentum :
    Bind(calculateAverageValue(pointsForAnalysisCalc), LAMBDA averageValue :
        [pointsInAnalysisWindow |-> pointsForAnalysisCalc,
         averageValue |-> averageValue,
         trendDirection |-> TrendDirection(slope),
         volatility |-> cv,
         recentMomentum |-> momentum,
         trendCategory |-> categorizeTrend(slope, momentum, cv,
                                           volatilityThreshPct)])))))

\* The statistics the second map computes over the full series.
SeriesAnalytics(allPoints, seasonalPeakPct) ==
    Bind(calculateSeasonalIndexes(allPoints, seasonalPeakPct), LAMBDA seasonalIndexes :
        [seasonalIndexes |-> seasonalIndexes,
         primaryPeakMonths |-> PrimaryPeakMonths(seasonalIndexes)])

\* One element of trendsBase with the fields the second map adds.
TrendRecord(aggItem, start, end, maWindowPoints) ==
    LET sortedPoints == SortedPoints(aggItem.pointsMap)
    IN  [keyword |-> aggItem.keyword,
         allPoints |-> sortedPoints,
         latestMetadata |-> LatestMetadata(aggItem.metadataEntries),
         dataSource |-> DeterminedDataSource(aggItem.metadataEntries),
         pointsInAnalysisWindow |-> PointsForAnalysisCalc(sortedPoints, start, end),
         maPoints |-> calculateMovingAverage(sortedPoints, maWindowPoints)]

\* The comparator with a missing rank read as 0.
CompareTrendsMissingRankZero(a, b) ==
    LET rankA == IF a.latestMetadata.rank = Null THEN 0 ELSE Val(a.latestMetadata.rank)
        rankB == IF b.latestMetadata.rank = Null THEN 0 ELSE Val(b.latestMetadata.rank)
    IN  IF rankA # rankB THEN rankA - rankB
        ELSE LocaleCompare(a.keyword, b.keyword)

\* The comparator of the final sort: rankA ?? Infinity against rankB ?? Infinity,
\* then localeCompare.  Negative when a goes first.
CompareTrends(a, b) ==
    LET rankA == a.latestMetadata.rank
        rankB == b.latestMetadata.rank
    IN  IF rankA # rankB
        THEN IF rankA = Null THEN 1
             ELSE IF rankB = Null THEN -1
             ELSE Val(rankA) - Val(rankB)
        ELSE LocaleCompare(a.keyword, b.keyword)

\* Array.prototype.sort is stable: x goes behind everything not after it.
InsertSorted(sorted, x) ==
    LET behind == {i \in 1 .. Len(sorted) : CompareTrends(sorted[i], x) <= 0}
        n == IF behind = {} THEN 0 ELSE CHOOSE i \in behind : \A j \in behind : j <= i
    IN  SubSeq(sorted, 1, n) \o <<x>> \o SubSeq(sorted, n + 1, Len(sorted))

RECURSIVE SortTrends(_, _)
SortTrends(trends, i) ==
    IF i = 0 THEN <<>> ELSE InsertSorted(SortTrends(trends, i - 1), trends[i])

RECURSIVE ObjectValues(_, _)
\* Object.values(currentRawAggregates): the keys in some insertion order; the
\* final sort is by a total order on keywords, so the order taken here (the
\* reverse of KeywordOrder) does not show in the result.
ObjectValues(agg, i) ==
    IF i = 0 THEN <<>>
    ELSE (IF KeywordOrder[i] \in DOMAIN agg THEN <<agg[KeywordOrder[i]]>> ELSE <<>>)
             \o ObjectValues(agg, i - 1)

generateDisplayTrends(currentRawAggregates, start, end, maWindowPoints) ==
    IF currentRawAggregates = Null THEN <<>>
    ELSE LET items == ObjectValues(Val(currentRawAggregates), Len(KeywordOrder))
             trends == [i \in 1 .. Len(items) |->
                           TrendRecord(items[i], start, end, maWindowPoints)]
             kept == SelectSeq(trends, LAMBDA t : Len(t.allPoints) > 0)
         IN  SortTrends(kept, Len(kept))

-----------------------------------------------------------------------------
(* The recompute effect of App (useEffect on rawAggregates,                *)
(* latestOverallDataDate and the settings).                                *)

WindowStart(latest, windowMonths) ==
    IF Truthy(latest) THEN Some(AnalysisStart(Val(latest), windowMonths)) ELSE Null

WindowEnd(latest) ==
    IF Truthy(latest) THEN Some(AnalysisEnd(Val(latest))) ELSE Null

\* The setError calls of the effect; oldError is what error held before it.
EffectError(oldError, raw, latest, trends, start, end, windowMonths) ==
    LET agg == Val(raw)
        noneInWindow ==
            \A k \in DOMAIN agg :
                \/ start = Null \/ end = Null
                \/ {t \in DOMAIN agg[k].pointsMap :
                        InAnalysisWindow(t, Val(start), Val(end))} = {}
    IN  IF Len(trends) = 0 /\ DOMAIN agg # {} /\ Truthy(latest)
        THEN IF noneInWindow THEN Some("No trend data found within the window")
             ELSE oldError
        ELSE IF Len(trends) = 0 /\ DOMAIN agg # {}
        THEN Some("No data points to display")
        ELSE Null

\* What the effect leaves in displayableTrends, analysisStartDate,
\* analysisEndDate and error for the given dependencies.
RecomputeEffect(oldError, raw, latest, windowMonths, maWindowPoints) ==
    IF raw = Null
    THEN [trends |-> <<>>, start |-> Null, end |-> Null, error |-> oldError]
    ELSE LET start == WindowStart(latest, windowMonths)
             end == WindowEnd(latest)
             trends == generateDisplayTrends(raw, start, end, maWindowPoints)
         IN  [trends |-> trends, start |-> start, end |-> end,
              error |-> EffectError(oldError, raw, latest, trends, start, end,
                                    windowMonths)]

-----------------------------------------------------------------------------
(* Inputs of the model: report files, API responses, settings.             *)

MaxIngests == 3     \* uploads and fetches started in one run
MaxInFlight == 2    \* handlers suspended at their await at one time

Nov23 == DateUTC(2023, 10, 1)
Mar24 == DateUTC(2024, 2, 1)
Apr24 == DateUTC(2024, 3, 1)
Jul24 == DateUTC(2024, 6, 15)

ReportJun == DateUTC(2024, 5, 30)
ReportJul == DateUTC(2024, 6, 31)

CsvRow(keyword, rank, cells) == [keyword |-> keyword, rank |-> rank, cells |-> cells]

CsvFile(reportDate, dateCols, rows) ==
    [reportDate |-> reportDate, headerFound |-> TRUE, dateCols |-> dateCols,
     rows |-> rows]

FileA == CsvFile(ReportJun, <<Nov23, Mar24>>,
                 <<CsvRow("pumpkin decor", Some(3), <<Some(10), Some(20)>>),
                   CsvRow("boho decor", Null, <<Some(5), Null>>)>>)

FileB == CsvFile(ReportJul, <<Mar24, Jul24>>,
                 <<CsvRow("pumpkin decor", Some(1), <<Some(25), Some(30)>>),
                   CsvRow("wall art", Null, <<Some(7), Some(8)>>)>>)

\* Dated like FileA, with another rank for the same keyword.
FileC == CsvFile(ReportJun, <<Apr24>>,
                 <<CsvRow("pumpkin decor", Some(2), <<Some(40)>>),
                   CsvRow("", Some(9), <<Some(1)>>)>>)

\* A keyword row without a usable value.
FileD == CsvFile(ReportJun, <<Nov23>>, <<CsvRow("wall art", Some(3), <<Null>>)>>)

\* A file in which no header row is found.
FileNoHeader == [reportDate |-> DateUTC(1970, 0, 1), headerFound |-> FALSE,
                 dateCols |-> <<>>, rows |-> <<>>]

\* The batches a user uploads (each has a file that is not blank).
CsvBatches == {<<FileA>>, <<FileB>>, <<FileC>>, <<FileD>>, <<FileA, FileB>>,
               <<FileNoHeader>>}

ApiEntry(keyword, rank, reportDate, pointsMap) ==
    [keyword |-> keyword, pointsMap |-> pointsMap,
     metadataEntries |-> <<[rank |-> rank, reportDate |-> ToISOString(reportDate),
                            dataSource |-> "api"]>>]

\* What the backend answers, in the transport format.
ApiResponses ==
    {[k \in {"wall art", "boho decor"} |->
         IF k = "wall art"
         THEN ApiEntry(k, Some(2), ReportJul, MapSet(MapSet(EmptyMap, Apr24, 50), Jul24, 60))
         ELSE ApiEntry(k, Some(3), ReportJul, MapSet(MapSet(EmptyMap, Mar24, 9), Apr24, 9))]}

DEFAULT_ANALYSIS_WINDOW_MONTHS == 24
DEFAULT_MA_WINDOW_POINTS == 3
DEFAULT_SEASONAL_PEAK_THRESHOLD_PCT == 25
DEFAULT_VOLATILITY_CV_THRESHOLD_PCT == 35
DEFAULT_GEMINI_API_KEY == "YOUR_GEMINI_API_KEY_PLACEHOLDER"

WindowChoices == {6, 12}
MaChoices == {2}

-----------------------------------------------------------------------------
(* The handlers of App.  An async handler is two steps: up to its await    *)
(* (Start...) and from its await to its end (...Done, ...Fail).            *)

\* The effect without analysisWindowMonths among its dependencies: it works
\* with the window length of its last run.
AfterRecomputeWithStaleWindow(oldError, raw, latest, windowMonths, maWindowPoints) ==
    \E r \in {RecomputeEffect(oldError, raw, latest, analysisWindowMonths,
                               maWindowPoints)} :
        /\ displayableTrends' = r.trends
        /\ analysisStartDate' = r.start
        /\ analysisEndDate' = r.end
        /\ error' = r.error

\* The effect after a handler left raw and latest in the store state.
AfterRecompute(oldError, raw, latest, windowMonths, maWindowPoints) ==
    \E r \in {RecomputeEffect(oldError, raw, latest, windowMonths, maWindowPoints)} :
        /\ displayableTrends' = r.trends
        /\ analysisStartDate' = r.start
        /\ analysisEndDate' = r.end
        /\ error' = r.error

\* prevDate === null || latest > prevDate ? latest : prevDate, under if (latest)
NextLatestDate(prevDate, latestInNew) ==
    IF Truthy(latestInNew)
    THEN IF prevDate = Null \/ Val(latestInNew) > Val(prevDate)
         THEN latestInNew ELSE prevDate
    ELSE prevDate

\* History of what a merge was given.
RecordMerge(newAggs) ==
    /\ prevAggs' = rawAggregates
    /\ incomingAggs' = Some(newAggs)
    /\ delivered' = [k \in DOMAIN delivered \cup DOMAIN newAggs |->
                        (IF k \in DOMAIN delivered THEN delivered[k] ELSE <<>>)
                            \o (IF k \in DOMAIN newAggs
                                THEN newAggs[k].metadataEntries ELSE <<>>)]

\* The state updates shared by the two ingesting handlers after their await.
Ingest(newAggs, latestInNew, sourceType) ==
    LET merged == Some(mergeAggregatedData(rawAggregates, newAggs))
        latest == NextLatestDate(latestOverallDataDate, latestInNew)
    IN  /\ rawAggregates' = merged
        /\ latestOverallDataDate' = latest
        /\ currentDataSourceType' = sourceType
        /\ isLoading' = FALSE
        /\ AfterRecompute(error, merged, latest, analysisWindowMonths,
                          movingAverageWindowPoints)
        /\ RecordMerge(newAggs)
        /\ UNCHANGED <<analysisWindowMonths, movingAverageWindowPoints, ingests,
                       fnVars, uiVars>>

StartHandler(kind) ==
    /\ BagCardinality(pending) < MaxInFlight
    /\ ingests < MaxIngests
    /\ ingests' = ingests + 1
    /\ isLoading' = TRUE
    /\ error' = Null
    /\ pending' = pending (+) SetToBag({[kind |-> kind,
                                         hadData |-> rawAggregates # Null]})
    /\ UNCHANGED <<rawAggregates, latestOverallDataDate, currentDataSourceType,
                   displayableTrends, analysisStartDate, analysisEndDate,
                   analysisWindowMonths, movingAverageWindowPoints,
                   prevAggs, incomingAggs, delivered, fnVars, uiVars>>

\* handleFileChange up to await Promise.all(filePromises)
StartUpload == StartHandler("csv")

\* handleFileChange: every file content is blank.
UploadAllEmpty ==
    \E op \in BagToSet(pending) :
        /\ op.kind = "csv"
        /\ pending' = pending (-) SetToBag({op})
        /\ error' = IF ~op.hadData THEN Some("All newly selected files are empty")
                    ELSE error
        /\ isLoading' = FALSE
        /\ UNCHANGED <<rawAggregates, latestOverallDataDate, currentDataSourceType,
                       displayableTrends, analysisStartDate, analysisEndDate,
                       analysisWindowMonths, movingAverageWindowPoints,
                       histVars, fnVars, uiVars>>

\* handleFileChange: parse the files, merge, set the latest date and the source.
UploadDoneOf(batches) ==
    \E op \in BagToSet(pending), files \in batches :
        LET parsedResult == parseAndAggregateCsvData(files, Null)
        IN  /\ op.kind = "csv"
            /\ pending' = pending (-) SetToBag({op})
            /\ Ingest(parsedResult.rawAggregates, parsedResult.latestDataDate,
                      IF currentDataSourceType \in {Some("api"), Some("mixed")}
                      THEN Some("mixed") ELSE Some("csv"))

UploadDone == UploadDoneOf(CsvBatches)

\* A catch that sets no message.
HandlerFailSilent(kind, message) ==
    \E op \in BagToSet(pending) :
        /\ op.kind = kind
        /\ pending' = pending (-) SetToBag({op})
        /\ isLoading' = FALSE
        /\ UNCHANGED <<rawAggregates, latestOverallDataDate, currentDataSourceType,
                       displayableTrends, analysisStartDate, analysisEndDate, error,
                       analysisWindowMonths, movingAverageWindowPoints,
                       histVars, fnVars, uiVars>>

\* A handler's catch and finally: a file could not be read, the fetch failed.
HandlerFail(kind, message) ==
    \E op \in BagToSet(pending) :
        /\ op.kind = kind
        /\ pending' = pending (-) SetToBag({op})
        /\ error' = Some(message)
        /\ isLoading' = FALSE
        /\ UNCHANGED <<rawAggregates, latestOverallDataDate, currentDataSourceType,
                       displayableTrends, analysisStartDate, analysisEndDate,
                       analysisWindowMonths, movingAverageWindowPoints,
                       histVars, fnVars, uiVars>>

UploadFail == HandlerFail("csv", "Error reading file")

\* handleFetchApiData up to await fetchTrendsFromBackend(backendUrl)
StartFetch == StartHandler("api")

FetchDoneOf(responses) ==
    \E op \in BagToSet(pending), response \in responses :
        LET apiAggregates == fetchTrendsFromBackend(response)
        IN  /\ op.kind = "api"
            /\ pending' = pending (-) SetToBag({op})
            /\ Ingest(apiAggregates, MaxTimestamp(apiAggregates),
                      IF currentDataSourceType \in {Some("csv"), Some("mixed")}
                      THEN Some("mixed") ELSE Some("api"))

FetchDone == FetchDoneOf(ApiResponses)

FetchFail == HandlerFail("api", "Failed to fetch or process API data")

\* handleClearData with clearLocalStorageData, which removes the saved
\* store and the saved settings; the button is disabled while
\* currentDataSourceType is null.
handleClearData ==
    /\ currentDataSourceType # Null
    /\ rawAggregates' = Null
    /\ latestOverallDataDate' = Null
    /\ currentDataSourceType' = Null
    /\ displayableTrends' = <<>>
    /\ error' = Null
    /\ isLoading' = FALSE
    /\ analysisStartDate' = Null
    /\ analysisEndDate' = Null
    /\ prevAggs' = Null
    /\ incomingAggs' = Null
    /\ delivered' = EmptyAggregates
    /\ searchTerm' = ""
    /\ activePeakMonthFilter' = Null
    /\ geminiAnalysisResult' = Null
    /\ isGeminiAnalysisModalOpen' = FALSE
    /\ storedSettings' = Null
    /\ UNCHANGED <<analysisWindowMonths, movingAverageWindowPoints, pending,
                   ingests, fnVars, seasonalPeakThresholdPct,
                   volatilityCVThresholdPct, geminiApiKey, settingsDraft>>

\* The settings in effect, in the shape SettingsModal hands them over
\* (pinterestApiKey is kept by the application but read by no handler).
CurrentSettings ==
    [analysisWindow |-> analysisWindowMonths,
     maPoints |-> movingAverageWindowPoints,
     seasonalThreshold |-> seasonalPeakThresholdPct,
     volatilityThreshold |-> volatilityCVThresholdPct,
     geminiApiKey |-> geminiApiKey]

\* handleSaveSettings(newSettings), localStorage being available; the effect
\* runs when a setting it depends on changed.
SaveSettings(newSettings) ==
    /\ analysisWindowMonths' = newSettings.analysisWindow
    /\ movingAverageWindowPoints' = newSettings.maPoints
    /\ seasonalPeakThresholdPct' = newSettings.seasonalThreshold
    /\ volatilityCVThresholdPct' = newSettings.volatilityThreshold
    /\ geminiApiKey' = newSettings.geminiApiKey
    /\ storedSettings' = Some(newSettings)
    /\ settingsDraft' = Null
    /\ AfterRecompute(error, rawAggregates, latestOverallDataDate,
                      newSettings.analysisWindow, newSettings.maPoints)
    /\ UNCHANGED <<rawAggregates, latestOverallDataDate, currentDataSourceType,
                   isLoading, pending, histVars, fnVars, viewVars, geminiVars>>

\* handleSaveSettings with new values for the window and the moving average.
handleSaveSettings ==
    \E analysisWindow \in WindowChoices, maPoints \in MaChoices :
        /\ <<analysisWindow, maPoints>> #
               <<analysisWindowMonths, movingAverageWindowPoints>>
        /\ SaveSettings([CurrentSettings EXCEPT !.analysisWindow = analysisWindow,
                                                !.maPoints = maPoints])

\* The state declarations of App, before any effect or handler ran.
CoreInit ==
    /\ rawAggregates = Null
    /\ latestOverallDataDate = Null
    /\ currentDataSourceType = Null
    /\ displayableTrends = <<>>
    /\ analysisStartDate = Null
    /\ analysisEndDate = Null
    /\ isLoading = FALSE
    /\ error = Null
    /\ analysisWindowMonths = DEFAULT_ANALYSIS_WINDOW_MONTHS
    /\ movingAverageWindowPoints = DEFAULT_MA_WINDOW_POINTS
    /\ pending = EmptyBag
    /\ prevAggs = Null
    /\ incomingAggs = Null
    /\ delivered = EmptyAggregates
    /\ ingests = 0

\* envKey is import.meta.env.VITE_GEMINI_API_KEY || DEFAULT_GEMINI_API_KEY
UiInit(envKey) ==
    /\ seasonalPeakThresholdPct = DEFAULT_SEASONAL_PEAK_THRESHOLD_PCT
    /\ volatilityCVThresholdPct = DEFAULT_VOLATILITY_CV_THRESHOLD_PCT
    /\ geminiApiKey = envKey
    /\ storedSettings = Null
    /\ settingsDraft = Null
    /\ searchTerm = ""
    /\ activePeakMonthFilter = Null
    /\ geminiAnalysisResult = Null
    /\ isGeminiAnalysisModalOpen = FALSE

AppInit == CoreInit /\ UiInit(DEFAULT_GEMINI_API_KEY)

Init == AppInit /\ fnArgs = Null /\ fnRet = Null

Next ==
    \/ StartUpload
    \/ UploadAllEmpty
    \/ UploadDone
    \/ UploadFail
    \/ StartFetch
    \/ FetchDone
    \/ FetchFail
    \/ handleClearData
    \/ handleSaveSettings

Spec == Init /\ [][Next]_vars

-----------------------------------------------------------------------------
(* Claims about the merge, checked on the stores the handlers build.       *)

PointMaps(agg) == [k \in DOMAIN agg |-> agg[k].pointsMap]

\* The last merge had both a store to start from and incoming data.
MergedIntoStore == prevAggs # Null /\ incomingAggs # Null

\* C1: for every keyword present in both the existing store and the incoming
\* data, the merged point map is the union of the two point maps: a timestamp
\* only the existing map has keeps its value, and every timestamp of the
\* incoming map carries the incoming value.
C1_MergeUnionsPointMaps ==
    MergedIntoStore =>
        \A k \in DOMAIN Val(prevAggs) \cap DOMAIN Val(incomingAggs) :
            LET old == Val(prevAggs)[k].pointsMap
                new == Val(incomingAggs)[k].pointsMap
                res == Val(rawAggregates)[k].pointsMap
            IN  /\ DOMAIN res = DOMAIN old \cup DOMAIN new
                /\ \A t \in DOMAIN new : res[t] = new[t]
                /\ \A t \in DOMAIN old \ DOMAIN new : res[t] = old[t]

\* C2: a merge removes no point of the store it started from; a keyword the
\* incoming data does not mention keeps its points and its metadata entries.
C2_NoPointRemovedByMerge ==
    MergedIntoStore =>
        \A k \in DOMAIN Val(prevAggs) :
            /\ k \in DOMAIN Val(rawAggregates)
            /\ DOMAIN Val(prevAggs)[k].pointsMap
                   \subseteq DOMAIN Val(rawAggregates)[k].pointsMap
            /\ k \notin DOMAIN Val(incomingAggs) =>
                   Val(rawAggregates)[k] = Val(prevAggs)[k]

\* C3: the metadata list of a keyword is the log of the entries delivered for
\* it since the store was created, in ingestion order, nothing deleted,
\* replaced or deduplicated.
C3_MetadataIsAppendOnlyLog ==
    /\ rawAggregates = Null => DOMAIN delivered = {}
    /\ rawAggregates # Null =>
           /\ DOMAIN Val(rawAggregates) = DOMAIN delivered
           /\ \A k \in DOMAIN delivered :
                  Val(rawAggregates)[k].metadataEntries = delivered[k]

\* An identical report was ingested twice and both entries are in the log.
C3_Witness ==
    /\ MergedIntoStore
    /\ \E k \in DOMAIN Val(rawAggregates) \cap DOMAIN Val(incomingAggs) :
           LET log == Val(rawAggregates)[k].metadataEntries
           IN  /\ Len(log) >= 2
               /\ log[Len(log)] = log[Len(log) - 1]
               /\ Val(incomingAggs)[k].metadataEntries = <<log[Len(log)]>>

\* C4: merging the same incoming data a second time leaves every point map as
\* the first merge left it, and a timestamp both sides have holds the
\* incoming value after the merge.
C4_MergeIdempotentOnPoints ==
    incomingAggs # Null =>
        LET once == mergeAggregatedData(prevAggs, Val(incomingAggs))
            twice == mergeAggregatedData(Some(once), Val(incomingAggs))
        IN  /\ PointMaps(once) = PointMaps(Val(rawAggregates))
            /\ PointMaps(twice) = PointMaps(once)
            /\ prevAggs # Null =>
                   \A k \in DOMAIN Val(prevAggs) \cap DOMAIN Val(incomingAggs) :
                       \A t \in DOMAIN Val(prevAggs)[k].pointsMap
                                   \cap DOMAIN Val(incomingAggs)[k].pointsMap :
                           once[k].pointsMap[t] = Val(incomingAggs)[k].pointsMap[t]

\* A merge changed the value at a timestamp the store already had, and
\* brought a keyword the store did not have.
C4_Witness ==
    /\ MergedIntoStore
    /\ \E k \in DOMAIN Val(prevAggs) \cap DOMAIN Val(incomingAggs) :
           \E t \in DOMAIN Val(prevAggs)[k].pointsMap
                       \cap DOMAIN Val(incomingAggs)[k].pointsMap :
               Val(prevAggs)[k].pointsMap[t] # Val(incomingAggs)[k].pointsMap[t]
    /\ DOMAIN Val(incomingAggs) \ DOMAIN Val(prevAggs) # {}

-----------------------------------------------------------------------------
(* Claims about the window and the projection.                             *)

\* C7: the window is none exactly when no latest date is known; without a
\* window every record's windowed subset is its full series, and with an
\* empty store there are no records; with a window the subset is exactly
\* the points from the day of start to the day of end, both included.
C7_WindowNoneOrInclusive ==
    /\ (analysisStartDate = Null) = (latestOverallDataDate = Null)
    /\ (analysisEndDate = Null) = (latestOverallDataDate = Null)
    /\ rawAggregates = Null => displayableTrends = <<>>
    /\ \A i \in 1 .. Len(displayableTrends) :
           LET all == displayableTrends[i].allPoints
               sub == displayableTrends[i].pointsInAnalysisWindow
           IN  IF analysisStartDate = Null THEN sub = all
               ELSE LET inside == {j \in 1 .. Len(all) :
                                      /\ Val(analysisStartDate).day <= all[j].date
                                      /\ all[j].date <= Val(analysisEndDate).day}
                    IN  /\ Val(analysisStartDate).ms = 0
                        /\ Range(sub) = {all[j] : j \in inside}
                        /\ Len(sub) = Cardinality(inside)
                        /\ \A a, b \in 1 .. Len(sub) :
                               a < b => sub[a].date < sub[b].date

\* A record has a point on the day the window starts, which is kept, and a
\* point before it, which is left out.
C7_Witness ==
    /\ analysisStartDate # Null
    /\ \E i \in 1 .. Len(displayableTrends) :
           LET all == displayableTrends[i].allPoints
               sub == displayableTrends[i].pointsInAnalysisWindow
           IN  /\ \E j \in 1 .. Len(all) : all[j].date < Val(analysisStartDate).day
               /\ \E j \in 1 .. Len(sub) : sub[j].date = Val(analysisStartDate).day
               /\ Len(sub) < Len(all)

\* C8: the record list is ordered by the rank of the latest metadata
\* ascending, a record without a rank comes after every ranked one, and
\* records of equal rank (two unranked ones too) are in keyword order.
C8_RecordsOrderedByRankThenKeyword ==
    \A i, j \in 1 .. Len(displayableTrends) :
        i < j =>
            LET rankA == displayableTrends[i].latestMetadata.rank
                rankB == displayableTrends[j].latestMetadata.rank
            IN  \/ rankA # Null /\ rankB = Null
                \/ rankA # Null /\ rankB # Null /\ Val(rankA) < Val(rankB)
                \/ /\ rankA = rankB
                   /\ KeywordIndex(displayableTrends[i].keyword)
                          < KeywordIndex(displayableTrends[j].keyword)

\* Three records: a ranked one ahead of two unranked ones.
C8_Witness ==
    /\ Len(displayableTrends) = 3
    /\ displayableTrends[1].latestMetadata.rank # Null
    /\ displayableTrends[2].latestMetadata.rank = Null
    /\ displayableTrends[3].latestMetadata.rank = Null

\* The first index of entries that holds the greatest reportDate.
FirstOfLatestDate(entries) ==
    CHOOSE i \in 1 .. Len(entries) :
        /\ \A j \in 1 .. Len(entries) : entries[j].reportDate <= entries[i].reportDate
        /\ \A j \in 1 .. (i - 1) : entries[j].reportDate < entries[i].reportDate

\* C9: the latest metadata of a record is the entry of the keyword's log with
\* the greatest reportDate, and of several entries with that date the one
\* appended first.
C9_LatestMetadataIsFirstOfMaxDate ==
    \A i \in 1 .. Len(displayableTrends) :
        LET entries == Val(rawAggregates)[displayableTrends[i].keyword].metadataEntries
        IN  Len(entries) > 0 =>
                displayableTrends[i].latestMetadata = entries[FirstOfLatestDate(entries)]

\* A record whose log holds two different entries of the greatest date.
C9_Witness ==
    \E i \in 1 .. Len(displayableTrends) :
        LET entries == Val(rawAggregates)[displayableTrends[i].keyword].metadataEntries
        IN  \E a, b \in 1 .. Len(entries) :
                /\ a < b
                /\ a = FirstOfLatestDate(entries)
                /\ entries[b].reportDate = entries[a].reportDate
                /\ entries[b] # entries[a]

-----------------------------------------------------------------------------
(* The window computation on its own: every settings value of              *)
(* analysisWindowMonths against latest dates at the start, in the middle   *)
(* and at the end of months of 28, 29, 30 and 31 days.                     *)

MinWindowMonths == 6
MaxWindowMonths == 60

WindowDates ==
    {DateUTC(2024, 2, 15), DateUTC(2023, 6, 10), DateUTC(2024, 6, 15),
     DateUTC(2024, 0, 31), DateUTC(2024, 1, 29), DateUTC(2023, 1, 1),
     DateUTC(2024, 3, 30), DateUTC(2023, 11, 31)}

WindowInit ==
    /\ AppInit
    /\ fnArgs \in {Some([latest |-> d, windowMonths |-> w]) :
                      d \in WindowDates, w \in MinWindowMonths .. MaxWindowMonths}
    /\ fnRet = Null

\* Lines 367-376 of the effect, for a latest date that is known.
ComputeAnalysisWindow ==
    /\ fnRet = Null
    /\ fnRet' = Some([start |-> Val(WindowStart(Some(Val(fnArgs).latest),
                                                Val(fnArgs).windowMonths)),
                      end |-> Val(WindowEnd(Some(Val(fnArgs).latest)))])
    /\ UNCHANGED <<appVars, histVars, fnArgs, uiVars>>

WindowNext == ComputeAnalysisWindow

SpecWindow == WindowInit /\ [][WindowNext]_vars

\* Months since year 0 of the month a day lies in.
MonthCount(day) == YearFromTime(day) * 12 + MonthFromTime(day)

\* The first day of the month that is monthCount months after January of year 0.
FirstDayOfMonth(monthCount) ==
    (monthCount \div 12) * 10000 + ((monthCount % 12) + 1) * 100 + 1

\* C6: the window ends at 23:59:59.999 UTC of the last day of the month of
\* the latest date and starts at 00:00:00.000 UTC of the first day of the
\* month (windowMonths - 1) months before that month.
C6_WindowSpansWindowMonths ==
    fnRet # Null =>
        LET latest == Val(fnArgs).latest
            w == Val(fnArgs).windowMonths
            y == YearFromTime(latest)
            m == MonthFromTime(latest)
        IN  /\ Val(fnRet).end = [day |-> y * 10000 + (m + 1) * 100 + DaysInMonth(y, m),
                                 ms |-> ((23 * 60 + 59) * 60 + 59) * 1000 + 999]
            /\ Val(fnRet).start = [day |-> FirstDayOfMonth(MonthCount(latest) - (w - 1)),
                                   ms |-> 0]

-----------------------------------------------------------------------------
(* parseAndAggregateCsvData on its own, over batches of report files.      *)

MaxBatchFiles == 2

MonthsOf2024(from, n) == [i \in 1 .. n |-> DateUTC(2024, from + i - 2, 1)]

\* Report A: January to June, 10 to 60.  Report B: April to September, 45 to 95.
ReportA == CsvFile(ReportJun, MonthsOf2024(1, 6),
                   <<CsvRow("pumpkin decor", Some(2), [i \in 1 .. 6 |-> Some(10 * i)])>>)

ReportB == CsvFile(ReportJul, MonthsOf2024(4, 6),
                   <<CsvRow("pumpkin decor", Some(1), [i \in 1 .. 6 |-> Some(35 + 10 * i)])>>)

CsvFiles == {ReportA, ReportB, FileA, FileB, FileC, FileD, FileNoHeader}

RECURSIVE SeqsUpTo(_, _)
\* The sequences over set of length 1 .. n.
SeqsUpTo(set, n) ==
    IF n = 0 THEN {}
    ELSE {<<x>> : x \in set}
             \cup {Append(q, x) : q \in SeqsUpTo(set, n - 1), x \in set}

CsvInit ==
    /\ AppInit
    /\ fnArgs \in {Some(batch) : batch \in SeqsUpTo(CsvFiles, MaxBatchFiles)}
    /\ fnRet = Null

\* The call of handleFileChange: the batch is parsed on its own.
ParseBatch ==
    /\ fnRet = Null
    /\ fnRet' = Some(parseAndAggregateCsvData(Val(fnArgs), Null))
    /\ UNCHANGED <<appVars, histVars, fnArgs, uiVars>>

CsvNext == ParseBatch

SpecCsv == CsvInit /\ [][CsvNext]_vars

\* The rows <<file, row>> of the batch that name keyword k.
Occurrences(files, k) ==
    {o \in UNION {{<<f, r>> : r \in 1 .. Len(files[f].rows)} : f \in 1 .. Len(files)} :
        files[o[1]].headerFound /\ files[o[1]].rows[o[2]].keyword = k}

\* The cells <<file, row, column>> of the batch that give k a value at t.
Covering(files, k, t) ==
    {c \in UNION {{<<o[1], o[2], i>> : i \in 1 .. Len(files[o[1]].dateCols)} :
                     o \in Occurrences(files, k)} :
        /\ files[c[1]].dateCols[c[3]] = t
        /\ files[c[1]].rows[c[2]].cells[c[3]] # Null}

\* Batch order: by file, then row, then column.
AppliedBefore(a, b) ==
    \/ a[1] < b[1]
    \/ a[1] = b[1] /\ a[2] < b[2]
    \/ a[1] = b[1] /\ a[2] = b[2] /\ (Len(a) = 2 \/ a[3] <= b[3])

BatchKeywords(files) ==
    {files[f].rows[r].keyword :
        <<f, r>> \in UNION {{<<f2, r2>> : r2 \in 1 .. Len(files[f2].rows)} :
                               f2 \in 1 .. Len(files)}} \ {""}

BatchTimestamps(files) == UNION {Range(files[f].dateCols) : f \in 1 .. Len(files)}

\* C5: a batch is applied in the order given: a keyword's series holds every
\* timestamp some file gives it a value for, a timestamp several files cover
\* carries the value of the last of them, and the keyword has one metadata
\* entry per row naming it, in batch order; reports A and B together give
\* 9 points, April to June from B, and 2 metadata entries.
C5_BatchAppliedInOrder ==
    fnRet # Null =>
        LET files == Val(fnArgs)
            agg == Val(fnRet).rawAggregates
        IN  /\ DOMAIN agg = {k \in BatchKeywords(files) : Occurrences(files, k) # {}}
            /\ \A k \in DOMAIN agg :
                   LET occ == Occurrences(files, k)
                       pm == agg[k].pointsMap
                   IN  /\ Len(agg[k].metadataEntries) = Cardinality(occ)
                       /\ \A o \in occ :
                              LET pos == Cardinality({q \in occ : AppliedBefore(q, o) \/ q = o})
                              IN  agg[k].metadataEntries[pos]
                                      = [rank |-> files[o[1]].rows[o[2]].rank,
                                         reportDate |-> files[o[1]].reportDate,
                                         dataSource |-> "csv"]
                       /\ DOMAIN pm = {t \in BatchTimestamps(files) :
                                          Covering(files, k, t) # {}}
                       /\ \A t \in DOMAIN pm :
                              LET last == CHOOSE c \in Covering(files, k, t) :
                                              \A d \in Covering(files, k, t) :
                                                  AppliedBefore(d, c)
                              IN  pm[t] = Val(files[last[1]].rows[last[2]].cells[last[3]])
            /\ files = <<ReportA, ReportB>> =>
                   /\ Cardinality(DOMAIN agg["pumpkin decor"].pointsMap) = 9
                   /\ Len(agg["pumpkin decor"].metadataEntries) = 2
                   /\ \A i \in 1 .. 3 :
                          /\ agg["pumpkin decor"].pointsMap[DateUTC(2024, i - 1, 1)] = 10 * i
                          /\ agg["pumpkin decor"].pointsMap[DateUTC(2024, i + 2, 1)]
                                 = 35 + 10 * i

\* Reports A and B were parsed in one batch, in that order.
C5_Witness ==
    /\ fnRet # Null
    /\ Val(fnArgs) = <<ReportA, ReportB>>
    /\ Cardinality(DOMAIN Val(fnRet).rawAggregates["pumpkin decor"].pointsMap) = 9

-----------------------------------------------------------------------------
(* calculateMovingAverage on its own, over short series.                   *)

MaxPoints == 4
MaxMaWindow == 4

PointValues == {1, 2, 4}

RECURSIVE SeriesOfLen(_)
\* The series of n points on the first days of n consecutive months.
SeriesOfLen(n) ==
    IF n = 0 THEN {<<>>}
    ELSE {Append(q, [date |-> DateUTC(2024, n - 1, 1), value |-> v]) :
             q \in SeriesOfLen(n - 1), v \in PointValues}

MaInit ==
    /\ AppInit
    /\ fnArgs \in {Some([points |-> q, windowSize |-> w]) :
                      q \in UNION {SeriesOfLen(n) : n \in 0 .. MaxPoints},
                      w \in 0 .. MaxMaWindow}
    /\ fnRet = Null

MovingAverageCall ==
    /\ fnRet = Null
    /\ fnRet' = Some(calculateMovingAverage(Val(fnArgs).points, Val(fnArgs).windowSize))
    /\ UNCHANGED <<appVars, histVars, fnArgs, uiVars>>

MaNext == MovingAverageCall

SpecMA == MaInit /\ [][MaNext]_vars

\* The length and the dates the moving average is to have.
MaShape(points, w, ma) ==
    IF Len(points) >= w /\ w >= 2
    THEN /\ Len(ma) = Len(points) - w + 1
         /\ \A i \in 1 .. Len(ma) : ma[i].date = points[i + w - 1].date
    ELSE ma = <<>>

\* C10, as stated: len - w + 1 output points when len >= w >= 2 and none
\* otherwise, the i-th dated at the last point of the i-th window, its value
\* the mean of the window (values are held in hundredths).
C10_MovingAverageIsMean ==
    fnRet # Null =>
        LET points == Val(fnArgs).points
            w == Val(fnArgs).windowSize
            ma == Val(fnRet)
        IN  /\ MaShape(points, w, ma)
            /\ \A i \in 1 .. Len(ma) :
                   w * ma[i].value = 100 * SumValues(points, i, i + w - 1)

\* C10, amended: as above, the value being the mean of the window rounded to
\* two decimals (at most half a hundredth away from the mean).
C10_MovingAverageIsRoundedMean ==
    fnRet # Null =>
        LET points == Val(fnArgs).points
            w == Val(fnArgs).windowSize
            ma == Val(fnRet)
        IN  /\ MaShape(points, w, ma)
            /\ \A i \in 1 .. Len(ma) :
                   LET diff == 2 * (100 * SumValues(points, i, i + w - 1) - w * ma[i].value)
                   IN  -w <= diff /\ diff <= w

\* Two windows over four points, neither mean a whole number of hundredths.
C10_Witness ==
    /\ fnRet # Null
    /\ Val(fnArgs).windowSize = 3
    /\ Len(Val(fnArgs).points) = 4
    /\ Len(Val(fnRet)) = 2
    /\ \A i \in 1 .. 2 :
           3 * Val(fnRet)[i].value # 100 * SumValues(Val(fnArgs).points, i, i + 2)

-----------------------------------------------------------------------------
(* calculateRecentMomentum on its own, over series around the 6-point      *)
(* minimum whose 3-point sums meet the 10% thresholds exactly (100 and 90, *)
(* 100 and 110) and clear them (100 and 120).                              *)

MaxMomentumPoints == 7

MomentumValues == {30, 35, 40}

RECURSIVE SeriesOver(_, _)
\* The series of n points on the first days of n consecutive months.
SeriesOver(values, n) ==
    IF n = 0 THEN {<<>>}
    ELSE {Append(q, [date |-> DateUTC(2024, n - 1, 1), value |-> v]) :
             q \in SeriesOver(values, n - 1), v \in values}

MomentumInit ==
    /\ AppInit
    /\ fnArgs \in {Some(q) : q \in UNION {SeriesOver(MomentumValues, n) :
                                            n \in 0 .. MaxMomentumPoints}}
    /\ fnRet = Null

MomentumCall ==
    /\ fnRet = Null
    /\ fnRet' = Some(calculateRecentMomentum(Val(fnArgs)))
    /\ UNCHANGED <<appVars, histVars, fnArgs, uiVars>>

MomentumNext == MomentumCall

SpecMomentum == MomentumInit /\ [][MomentumNext]_vars

\* C11: fewer than 6 points give 'N/A'; otherwise, with last and prev the
\* means of the last 3 points and of the 3 points before them, the result
\* is 'gaining' iff last > prev * 1.10, 'fading' iff last < prev * 0.90 and
\* 'stable' otherwise (the means compared as sums: both are sums over 3).
C11_MomentumByTenPercent ==
    fnRet # Null =>
        LET points == Val(fnArgs)
            n == Len(points)
            last == SumValues(points, n - 2, n)
            prev == SumValues(points, n - 5, n - 3)
        IN  Val(fnRet) = IF n < 6 THEN "N/A"
                         ELSE IF 10 * last > 11 * prev THEN "gaining"
                         ELSE IF 10 * last < 9 * prev THEN "fading"
                         ELSE "stable"

-----------------------------------------------------------------------------
(* The window statistics on their own: series of up to MaxAnalyticsPoints  *)
(* points, unfiltered or cut by a window that leaves out the first month,  *)
(* under the default volatility threshold.                                 *)

MaxAnalyticsPoints == 6

AnalyticsValues == {0, 1, 2}

VolatilityChoices == {DEFAULT_VOLATILITY_CV_THRESHOLD_PCT}

\* No window, and February to December 2024.
AnalyticsWindows ==
    {[start |-> Null, end |-> Null],
     [start |-> Some([day |-> DateUTC(2024, 1, 1), ms |-> 0]),
      end |-> Some([day |-> DateUTC(2024, 11, 31), ms |-> MakeTime(23, 59, 59, 999)])]}

AnalyticsInit ==
    /\ AppInit
    /\ fnArgs \in {Some([allPoints |-> q, window |-> w, volatilityThreshPct |-> t]) :
                      q \in UNION {SeriesOver(AnalyticsValues, n) :
                                      n \in 0 .. MaxAnalyticsPoints},
                      w \in AnalyticsWindows, t \in VolatilityChoices}
    /\ fnRet = Null

AnalyticsCall ==
    /\ fnRet = Null
    /\ fnRet' = Some(WindowAnalytics(Val(fnArgs).allPoints, Val(fnArgs).window.start,
                                     Val(fnArgs).window.end,
                                     Val(fnArgs).volatilityThreshPct))
    /\ UNCHANGED <<appVars, histVars, fnArgs, uiVars>>

AnalyticsNext == AnalyticsCall

SpecAnalytics == AnalyticsInit /\ [][AnalyticsNext]_vars

\* The points of the series the window keeps (all of them without a window).
KeptByWindow(allPoints, window) ==
    {i \in 1 .. Len(allPoints) :
        window.start # Null =>
            /\ Val(window.start).day <= allPoints[i].date
            /\ allPoints[i].date <= Val(window.end).day}

\* C12: the category is 'Insufficient Data' exactly when the slope or the
\* momentum over the points of the window is not applicable (fewer than 6
\* points in the window), whatever the volatility, and that label never
\* carries the 'Volatile' prefix.
C12_InsufficientDataIffNotApplicable ==
    fnRet # Null =>
        LET r == Val(fnRet)
            inWindow == Cardinality(KeptByWindow(Val(fnArgs).allPoints, Val(fnArgs).window))
        IN  /\ Len(r.pointsInAnalysisWindow) = inWindow
            /\ (r.trendDirection = "N/A") = (inWindow < 2)
            /\ (r.recentMomentum = "N/A") = (inWindow < 6)
            /\ (r.trendCategory = "Insufficient Data")
                   = (r.trendDirection = "N/A" \/ r.recentMomentum = "N/A")
            /\ r.trendCategory # "Volatile Insufficient Data"

\* A series of 6 points of which the window keeps 5, volatile by its
\* coefficient of variation, labelled 'Insufficient Data'.
C12_Witness ==
    /\ fnRet # Null
    /\ Len(Val(fnArgs).allPoints) = 6
    /\ Len(Val(fnRet).pointsInAnalysisWindow) = 5
    /\ Val(fnRet).volatility # Null
    /\ Val(Val(fnRet).volatility) > 100 * Val(fnArgs).volatilityThreshPct
    /\ Val(fnRet).trendCategory = "Insufficient Data"

\* a * a for a small natural number a, as a big natural number
BigSquare(a) == BigMul(BigFromNat(a), BigFromNat(a))

\* C13: the coefficient of variation is 'N/A' for fewer than 2 points and
\* for a mean of 0; in every other case it is (stddev / mean) * 100 with the
\* population standard deviation: here allowed to be the two-decimal number
\* nearest to it.  With s the sum and d = n * sum(v^2) - s^2 the ratio is
\* sqrt(d) / s, so a result of r hundredths is nearest when
\* ((2r - 1) * s)^2 <= 4 * 10^8 * d <= ((2r + 1) * s)^2.
C13_CoefficientOfVariationIsRatio ==
    fnRet # Null =>
        LET points == Val(fnRet).pointsInAnalysisWindow
            cv == Val(fnRet).volatility
            n == Len(points)
            s == SumValues(points, 1, n)
            target == BigMulSmall(BigMulSmall(BigFromNat(4 * ScaledVariance(points)),
                                              10000), 10000)
        IN  IF n < 2 \/ s = 0 THEN cv = Null
            ELSE /\ cv # Null
                 /\ Val(cv) > 0 => BigCmp(BigSquare((2 * Val(cv) - 1) * s), target) <= 0
                 /\ BigCmp(target, BigSquare((2 * Val(cv) + 1) * s)) <= 0

-----------------------------------------------------------------------------
\* calculateSeasonalIndexes and primaryPeakMonths as pure functions: the
\* series gives every calendar month the same yearly values, except one
\* month that has values of its own; a month with k values is observed in
\* the first k years.

MaxSeasonalYears == 3

MonthValueLists == {<<>>, <<0>>, <<1>>, <<2>>, <<0, 0, 1>>}

SpecialMonths == {1, 7, 12}

PeakThresholdChoices == {1, 25}

\* The values of calendar month m (1 .. 12)
MonthValues(common, special, at, m) == IF m = at THEN special ELSE common

\* The series sorted by date: year by year, month by month.
MonthlySeries(common, special, at) ==
    LET slots == [k \in 1 .. 12 * MaxSeasonalYears |->
                     [year |-> ((k - 1) \div 12) + 1, month |-> ((k - 1) % 12) + 1]]
        used == SelectSeq(slots, LAMBDA slot :
                    slot.year <= Len(MonthValues(common, special, at, slot.month)))
    IN  [k \in 1 .. Len(used) |->
            [date |-> DateUTC(2020 + used[k].year, used[k].month - 1, 1),
             value |-> MonthValues(common, special, at, used[k].month)[used[k].year]]]

SeasonalInit ==
    /\ AppInit
    /\ fnArgs \in {Some([allPoints |-> MonthlySeries(common, special, at),
                         seasonalPeakPct |-> t]) :
                      common \in MonthValueLists, special \in MonthValueLists,
                      at \in SpecialMonths, t \in PeakThresholdChoices}
    /\ fnRet = Null

SeasonalCall ==
    /\ fnRet = Null
    /\ fnRet' = Some(SeriesAnalytics(Val(fnArgs).allPoints, Val(fnArgs).seasonalPeakPct))
    /\ UNCHANGED <<appVars, histVars, fnArgs, uiVars>>

SeasonalNext == SeasonalCall

SpecSeasonal == SeasonalInit /\ [][SeasonalNext]_vars

\* The points of calendar month m (1 .. 12) of a series
PointsOfMonth(points, m) ==
    {i \in 1 .. Len(points) : MonthFromTime(points[i].date) = m - 1}

SumOver(points, S) == SumValues(SelectSeq(
    [i \in 1 .. Len(points) |-> IF i \in S THEN points[i] ELSE [date |-> 0, value |-> 0]],
    LAMBDA p : TRUE), 1, Len(points))

\* index (in tenths) is the average of the month as a percentage of the
\* average of the whole series, to one decimal:
\* |index/10 - 100 * (sumM / countM) / (sumAll / n)| <= 0.05
IsPercentOfSeriesAverage(index, sumM, countM, sumAll, n) ==
    LET diff == index * countM * sumAll - 1000 * sumM * n
    IN  2 * (IF diff < 0 THEN -diff ELSE diff) <= countM * sumAll

\* C14: calculateSeasonalIndexes returns 12 entries in calendar order; below
\* 12 points every entry has index 0 and is no peak; from 12 points on the
\* index of a month is the average of all its points as a percentage of the
\* average of the whole series, a month without points has index 0 and is no
\* peak, and a month is a peak exactly when its index is at least
\* 100 + the peak threshold.
C14_SeasonalIndexIsPercentOfAverage ==
    fnRet # Null /\ "seasonalIndexes" \in DOMAIN Val(fnRet) =>
        LET points == Val(fnArgs).allPoints
            pct == Val(fnArgs).seasonalPeakPct
            si == Val(fnRet).seasonalIndexes
            sumAll == SumValues(points, 1, Len(points))
        IN  /\ Len(si) = 12
            /\ \A m \in 1 .. 12 : si[m].month = MONTH_NAMES_SHORT[m]
            /\ Len(points) < 12 =>
                   \A m \in 1 .. 12 : si[m].index = 0 /\ ~si[m].isPeak
            /\ Len(points) >= 12 /\ sumAll > 0 =>
                   \A m \in 1 .. 12 :
                       LET mine == PointsOfMonth(points, m)
                       IN  IF mine = {} THEN si[m].index = 0 /\ ~si[m].isPeak
                           ELSE /\ IsPercentOfSeriesAverage(si[m].index,
                                       SumOver(points, mine), Cardinality(mine),
                                       sumAll, Len(points))
                                /\ si[m].isPeak <=> si[m].index >= 10 * (100 + pct)

\* Every calendar month has points and the same (non-zero) average.
SameAverageEveryMonth(points) ==
    /\ \A m \in 1 .. 12 : PointsOfMonth(points, m) # {}
    /\ \A m, k \in 1 .. 12 :
           SumOver(points, PointsOfMonth(points, m)) * Cardinality(PointsOfMonth(points, k))
               = SumOver(points, PointsOfMonth(points, k)) * Cardinality(PointsOfMonth(points, m))
    /\ SumValues(points, 1, Len(points)) > 0

\* C15: when every calendar month has the same average and the series has at
\* least 12 points, every seasonal index is 100 and no month is a peak
\* (the threshold being positive).
C15_UniformSeriesHasIndex100 ==
    fnRet # Null /\ "seasonalIndexes" \in DOMAIN Val(fnRet) =>
        LET points == Val(fnArgs).allPoints
            si == Val(fnRet).seasonalIndexes
        IN  Len(points) >= 12 /\ SameAverageEveryMonth(points)
                /\ Val(fnArgs).seasonalPeakPct > 0 =>
                    \A m \in 1 .. 12 : si[m].index = 10 * 100 /\ ~si[m].isPeak

\* The months of the greatest index among 12 entries, as a set of positions
MonthsOfGreatestIndex(si) ==
    {m \in 1 .. 12 : \A k \in 1 .. 12 : si[k].index <= si[m].index}

SeasonalityNotComputable(points) ==
    \/ Len(points) < 12
    \/ calculateAverageValue(points) \in {Null, Some(0)}

\* C18: not-applicable and a computed zero are never conflated; for the
\* seasonal index: an entry has index 0, and is shown as 'N/A', only when
\* its month has no observed point or seasonality cannot be computed at all.
C18_ZeroIndexOnlyWithoutData ==
    fnRet # Null /\ "seasonalIndexes" \in DOMAIN Val(fnRet) =>
        LET points == Val(fnArgs).allPoints
            si == Val(fnRet).seasonalIndexes
        IN  \A m \in 1 .. 12 :
                si[m].index = 0 \/ SeasonalIndexLabel(si[m]) = Null =>
                    \/ PointsOfMonth(points, m) = {}
                    \/ SeasonalityNotComputable(points)

-----------------------------------------------------------------------------
(* The peak-month tally and the month filter of App, on a store loaded     *)
(* from localStorage at start-up.                                          *)

\* The record with its seasonality taken from the points of the window.
KeywordTrendDataSeasonalityInWindow(aggItem, start, end, maWindowPoints, seasonalPeakPct, volatilityThreshPct) ==
    Bind(TrendRecord(aggItem, start, end, maWindowPoints), LAMBDA trend :
    Bind(WindowAnalytics(trend.allPoints, start, end, volatilityThreshPct),
         LAMBDA inWindow :
    Bind(SeriesAnalytics(inWindow.pointsInAnalysisWindow, seasonalPeakPct),
         LAMBDA overall :
        [keyword |-> trend.keyword,
         allPoints |-> trend.allPoints,
         latestMetadata |-> trend.latestMetadata,
         dataSource |-> trend.dataSource,
         pointsInAnalysisWindow |-> inWindow.pointsInAnalysisWindow,
         maPoints |-> trend.maPoints,
         averageValue |-> inWindow.averageValue,
         trendDirection |-> inWindow.trendDirection,
         volatility |-> inWindow.volatility,
         recentMomentum |-> inWindow.recentMomentum,
         trendCategory |-> inWindow.trendCategory,
         seasonalIndexes |-> overall.seasonalIndexes,
         primaryPeakMonths |-> overall.primaryPeakMonths])))

\* One element of the list generateDisplayTrends returns: the base fields
\* and the statistics of its second map.
KeywordTrendData(aggItem, start, end, maWindowPoints, seasonalPeakPct, volatilityThreshPct) ==
    Bind(TrendRecord(aggItem, start, end, maWindowPoints), LAMBDA trend :
    Bind(WindowAnalytics(trend.allPoints, start, end, volatilityThreshPct),
         LAMBDA inWindow :
    Bind(SeriesAnalytics(trend.allPoints, seasonalPeakPct), LAMBDA overall :
        [keyword |-> trend.keyword,
         allPoints |-> trend.allPoints,
         latestMetadata |-> trend.latestMetadata,
         dataSource |-> trend.dataSource,
         pointsInAnalysisWindow |-> inWindow.pointsInAnalysisWindow,
         maPoints |-> trend.maPoints,
         averageValue |-> inWindow.averageValue,
         trendDirection |-> inWindow.trendDirection,
         volatility |-> inWindow.volatility,
         recentMomentum |-> inWindow.recentMomentum,
         trendCategory |-> inWindow.trendCategory,
         seasonalIndexes |-> overall.seasonalIndexes,
         primaryPeakMonths |-> overall.primaryPeakMonths])))

\* generateDisplayTrends with the statistics fields of every record
generateDisplayTrendsWithStatistics(currentRawAggregates, start, end, maWindowPoints, seasonalPeakPct, volatilityThreshPct) ==
    IF currentRawAggregates = Null THEN <<>>
    ELSE Bind(ObjectValues(Val(currentRawAggregates), Len(KeywordOrder)), LAMBDA items :
         Bind(SubSeq([i \in 1 .. Len(items) |->
                         KeywordTrendData(items[i], start, end, maWindowPoints,
                                          seasonalPeakPct, volatilityThreshPct)],
                     1, Len(items)), LAMBDA trends :
         Bind(SelectSeq(trends, LAMBDA t : Len(t.allPoints) > 0), LAMBDA kept :
             SortTrends(kept, Len(kept)))))

\* String.prototype.toLowerCase on the letters the search terms use
LowerCaseLetter(c) ==
    CASE c = "A" -> "a" [] c = "L" -> "l" [] c = "W" -> "w" [] OTHER -> c

RECURSIVE ToLowerCase(_)
ToLowerCase(str) ==
    IF Len(str) = 0 THEN ""
    ELSE LowerCaseLetter(SubSeq(str, 1, 1)) \o ToLowerCase(SubSeq(str, 2, Len(str)))

\* String.prototype.includes
Includes(str, part) ==
    \E i \in 1 .. Len(str) - Len(part) + 1 : SubSeq(str, i, i + Len(part) - 1) = part

\* Array.prototype.includes on a list of month names
ListIncludes(list, item) == \E i \in 1 .. Len(list) : list[i] = item

\* The tally taken over the list after the search filter.
monthPeakCountsOfSearchResult ==
    Bind(SelectSeq(displayableTrends, LAMBDA trend :
             searchTerm = "" \/ Includes(ToLowerCase(trend.keyword),
                                         ToLowerCase(searchTerm))),
         LAMBDA trendsForCounting :
        [month \in Range(MONTH_NAMES_SHORT) |->
            Cardinality({entry \in UNION {{<<i, j>> :
                                  j \in 1 .. Len(trendsForCounting[i].primaryPeakMonths)} :
                                      i \in 1 .. Len(trendsForCounting)} :
                trendsForCounting[entry[1]].primaryPeakMonths[entry[2]] = month})])

\* The body of the monthPeakCounts memo: counts[peakMonth]++ over the
\* primaryPeakMonths of the records generateDisplayTrends gives.
monthPeakCountsOf(raw, start, end, maWindowPoints, seasonalPeakPct, volatilityThreshPct) ==
    Bind(generateDisplayTrendsWithStatistics(raw, start, end, maWindowPoints,
                                             seasonalPeakPct, volatilityThreshPct),
         LAMBDA trendsForCounting :
        [month \in Range(MONTH_NAMES_SHORT) |->
            Cardinality({entry \in UNION {{<<i, j>> :
                                  j \in 1 .. Len(trendsForCounting[i].primaryPeakMonths)} :
                                      i \in 1 .. Len(trendsForCounting)} :
                trendsForCounting[entry[1]].primaryPeakMonths[entry[2]] = month})])

\* monthPeakCounts (useMemo), for the current state
monthPeakCounts ==
    monthPeakCountsOf(rawAggregates, analysisStartDate, analysisEndDate,
                      movingAverageWindowPoints, seasonalPeakThresholdPct,
                      volatilityCVThresholdPct)

\* filteredTrends (useMemo)
filteredTrends ==
    LET searched == IF searchTerm # ""
                    THEN SelectSeq(displayableTrends, LAMBDA trend :
                             Includes(ToLowerCase(trend.keyword),
                                      ToLowerCase(searchTerm)))
                    ELSE displayableTrends
    IN  IF activePeakMonthFilter # Null
        THEN SelectSeq(searched, LAMBDA trend :
                 ListIncludes(trend.primaryPeakMonths, Val(activePeakMonthFilter)))
        ELSE searched

\* onChange of the search box
setSearchTerm(term) ==
    /\ searchTerm' = term
    /\ UNCHANGED <<appVars, histVars, fnVars, settingsVars, activePeakMonthFilter,
                   geminiVars>>

\* setActivePeakMonthFilter(prev => prev === month ? null : month)
handleMonthPeakFilterClick(month) ==
    /\ activePeakMonthFilter' = IF activePeakMonthFilter = Some(month) THEN Null
                               ELSE Some(month)
    /\ UNCHANGED <<appVars, histVars, fnVars, settingsVars, searchTerm, geminiVars>>

handleClearMonthPeakFilter ==
    /\ activePeakMonthFilter' = Null
    /\ UNCHANGED <<appVars, histVars, fnVars, settingsVars, searchTerm, geminiVars>>

\* The series a saved keyword may have: a December peak, eleven months tied
\* above an all-zero January, or too few points for seasonality.
SavedSeriesChoices ==
    {MonthlySeries(<<1>>, <<2>>, 12), MonthlySeries(<<1, 1>>, <<0, 0>>, 1),
     MonthlySeries(<<>>, <<2>>, 7)}

PointsMapOf(points) ==
    [t \in {points[i].date : i \in 1 .. Len(points)} |->
        (CHOOSE p \in Range(points) : p.date = t).value]

\* What loadTrendDataFromLocalStorage returns: a store saved by an earlier
\* session, every keyword with one CSV metadata entry.
SavedTrendData ==
    {[k \in Keywords |->
         [keyword |-> k, pointsMap |-> PointsMapOf(series[k]),
          metadataEntries |-> <<[rank |-> Some(KeywordIndex(k)),
                                 reportDate |-> DateUTC(2024, 0, 31),
                                 dataSource |-> "csv"]>>]] :
        series \in [Keywords -> SavedSeriesChoices]}

SearchTerms == {"", "decor", "WALL"}

FilterMonths == {"Jan", "Jul", "Dec"}

\* initializeLocalStorage with saved trend data and no saved settings,
\* followed by the effect.
FilterInit ==
    \E saved \in SavedTrendData :
        LET latest == MaxTimestamp(saved)
            start == WindowStart(latest, DEFAULT_ANALYSIS_WINDOW_MONTHS)
            end == WindowEnd(latest)
        IN  \E trends \in {generateDisplayTrendsWithStatistics(Some(saved), start, end,
                     DEFAULT_MA_WINDOW_POINTS, DEFAULT_SEASONAL_PEAK_THRESHOLD_PCT,
                     DEFAULT_VOLATILITY_CV_THRESHOLD_PCT)} :
            /\ rawAggregates = Some(saved)
            /\ latestOverallDataDate = latest
            /\ currentDataSourceType = Some("csv")
            /\ displayableTrends = trends
            /\ analysisStartDate = start
            /\ analysisEndDate = end
            /\ isLoading = FALSE
            /\ error = EffectError(Null, Some(saved), latest, trends, start, end,
                                   DEFAULT_ANALYSIS_WINDOW_MONTHS)
            /\ analysisWindowMonths = DEFAULT_ANALYSIS_WINDOW_MONTHS
            /\ movingAverageWindowPoints = DEFAULT_MA_WINDOW_POINTS
            /\ pending = EmptyBag
            /\ prevAggs = Null /\ incomingAggs = Null
            /\ delivered = EmptyAggregates /\ ingests = 0
            /\ UiInit(DEFAULT_GEMINI_API_KEY)
            /\ fnArgs = Null /\ fnRet = Null

ChangeSearch == \E term \in SearchTerms : setSearchTerm(term)

ClickMonth == \E month \in FilterMonths : handleMonthPeakFilterClick(month)

FilterNext ==
    \/ ChangeSearch
    \/ ClickMonth
    \/ handleClearMonthPeakFilter

SpecFilter == FilterInit /\ [][FilterNext]_vars

\* The records of the list whose places are in the set, in the order of the list.
RecordsAt(list, places) ==
    [n \in 1 .. Cardinality(places) |->
        list[CHOOSE i \in places : Cardinality({j \in places : j < i}) = n - 1]]

\* The places of displayableTrends whose keyword matches the search term.
SearchMatches ==
    {i \in 1 .. Len(displayableTrends) :
        searchTerm = "" \/ Includes(ToLowerCase(displayableTrends[i].keyword),
                                    ToLowerCase(searchTerm))}

\* The places of displayableTrends with the month among the primary peaks.
PeaksIn(month) ==
    {i \in 1 .. Len(displayableTrends) :
        month \in Range(displayableTrends[i].primaryPeakMonths)}

TallyCountsTheRecordList ==
    Bind(monthPeakCounts, LAMBDA counts :
        \A month \in Range(MONTH_NAMES_SHORT) :
            counts[month] = Cardinality(PeaksIn(month)))

MonthFilterKeepsTheMatchingRecords ==
    activePeakMonthFilter # Null =>
        filteredTrends = RecordsAt(displayableTrends,
                                   SearchMatches \cap PeaksIn(Val(activePeakMonthFilter)))

ClickOnActiveMonthRemovesFilter ==
    \A month \in Range(MONTH_NAMES_SHORT) :
        activePeakMonthFilter = Some(month) /\ handleMonthPeakFilterClick(month)
            => activePeakMonthFilter' = Null

-----------------------------------------------------------------------------
(* localStorage.ts: the store as the JSON text kept under                  *)
(* pinterest_trends_data.  The text is taken after JSON.parse, as the      *)
(* object it denotes: a points object has strings as its keys, a           *)
(* reportDate is the ISO string of the date.                               *)

Digits == "0123456789"
DigitChar(d) == SubSeq(Digits, d + 1, d + 1)
IsDigit(c) == \E d \in 0 .. 9 : DigitChar(d) = c
DigitValue(c) == CHOOSE d \in 0 .. 9 : DigitChar(d) = c

RECURSIVE NatToString(_)
NatToString(n) ==
    IF n < 10 THEN DigitChar(n) ELSE NatToString(n \div 10) \o DigitChar(n % 10)

\* Number::toString of an integer below 10^21: its decimal numeral.
NumberToString(n) == IF n < 0 THEN "-" \o NatToString(0 - n) ELSE NatToString(n)

RECURSIVE ParseDigits(_, _, _)
\* The digits of s from position i on, up to the first other character.
ParseDigits(s, i, acc) ==
    IF i > Len(s) \/ ~IsDigit(SubSeq(s, i, i)) THEN acc
    ELSE ParseDigits(s, i + 1, acc * 10 + DigitValue(SubSeq(s, i, i)))

\* parseInt(s, 10) of a string without leading white space: Null is NaN.
parseInt(s) ==
    LET signed == Len(s) >= 1 /\ SubSeq(s, 1, 1) \in {"-", "+"}
        first == IF signed THEN 2 ELSE 1
    IN  IF first > Len(s) \/ ~IsDigit(SubSeq(s, first, first)) THEN Null
        ELSE IF signed /\ SubSeq(s, 1, 1) = "-"
             THEN Some(0 - ParseDigits(s, first, 0))
             ELSE Some(ParseDigits(s, first, 0))

\* JSON.stringify of a Map itself: a Map has no own enumerable properties.
ObjectOfMapItself(pointsMap) == [key \in {} |-> 0]

\* Object.fromEntries(item.pointsMap): one property per entry, named by the
\* string of the timestamp.
ObjectFromEntries(pointsMap) ==
    [key \in {NumberToString(t) : t \in DOMAIN pointsMap} |->
        pointsMap[CHOOSE t \in DOMAIN pointsMap : NumberToString(t) = key]]

\* new Map(Object.entries(item.pointsMap).map(([k, v]) => [parseInt(k, 10), v]))
MapFromObject(object) ==
    [t \in {Val(parseInt(key)) : key \in DOMAIN object} |->
        object[CHOOSE key \in DOMAIN object : Val(parseInt(key)) = t]]

serializeAggregatedData(data) ==
    [keyword \in DOMAIN data |->
        [keyword |-> data[keyword].keyword,
         pointsMap |-> ObjectFromEntries(data[keyword].pointsMap),
         metadataEntries |->
            [i \in 1 .. Len(data[keyword].metadataEntries) |->
                [data[keyword].metadataEntries[i] EXCEPT
                    !.reportDate = ToISOString(@)]]]]

deserializeAggregatedData(parsed) ==
    [keyword \in DOMAIN parsed |->
        [keyword |-> parsed[keyword].keyword,
         pointsMap |-> MapFromObject(parsed[keyword].pointsMap),
         metadataEntries |->
            [i \in 1 .. Len(parsed[keyword].metadataEntries) |->
                [parsed[keyword].metadataEntries[i] EXCEPT
                    !.reportDate = ParseISO(@)]]]]

\* What localStorage holds under pinterest_trends_data: the auto-save effect
\* writes the store whenever it changed and is not null, and
\* clearLocalStorageData removes the item when the store is cleared.
StoredTrendData ==
    IF rawAggregates = Null THEN Null
    ELSE Some(serializeAggregatedData(Val(rawAggregates)))

\* loadTrendDataFromLocalStorage
loadTrendDataFromLocalStorage ==
    IF StoredTrendData = Null THEN Null
    ELSE Some(deserializeAggregatedData(Val(StoredTrendData)))

-----------------------------------------------------------------------------
(* The settings: the modal of SettingsModal.tsx with its draft fields, the *)
(* save into the application and localStorage, and a reload of the page.   *)
(* settingsDraft is Null while the modal is closed.                        *)

MinMaPoints == 2
MaxMaPoints == 10
MinSeasonalThresholdPct == 5
MaxSeasonalThresholdPct == 100
MinVolatilityThresholdPct == 10
MaxVolatilityThresholdPct == 100

SettingFields == {"analysisWindow", "maPoints", "seasonalThreshold", "volatilityThreshold"}

\* Number(e.target.value) of what is typed into a number field: 0 for a
\* field emptied, and a number typed in.
TypedNumbers == {0, 30}

\* onClick={() => setIsSettingsModalOpen(true)} and the effect of the modal
\* that copies currentSettings into its fields
OpenSettings ==
    /\ settingsDraft = Null
    /\ settingsDraft' = Some(CurrentSettings)
    /\ UNCHANGED <<appVars, histVars, fnVars, seasonalPeakThresholdPct,
                   volatilityCVThresholdPct, geminiApiKey, storedSettings,
                   viewVars, geminiVars>>

\* onChange of a number field: setX(Number(e.target.value))
EditSetting ==
    /\ settingsDraft # Null
    /\ \E field \in SettingFields, typed \in TypedNumbers :
           settingsDraft' = Some([Val(settingsDraft) EXCEPT ![field] = typed])
    /\ UNCHANGED <<appVars, histVars, fnVars, seasonalPeakThresholdPct,
                   volatilityCVThresholdPct, geminiApiKey, storedSettings,
                   viewVars, geminiVars>>

\* handleResetDefaults of the modal: the fields only
handleResetDefaults ==
    /\ settingsDraft # Null
    /\ settingsDraft' = Some([analysisWindow |-> DEFAULT_ANALYSIS_WINDOW_MONTHS,
                              maPoints |-> DEFAULT_MA_WINDOW_POINTS,
                              seasonalThreshold |-> DEFAULT_SEASONAL_PEAK_THRESHOLD_PCT,
                              volatilityThreshold |-> DEFAULT_VOLATILITY_CV_THRESHOLD_PCT,
                              geminiApiKey |-> DEFAULT_GEMINI_API_KEY])
    /\ UNCHANGED <<appVars, histVars, fnVars, seasonalPeakThresholdPct,
                   volatilityCVThresholdPct, geminiApiKey, storedSettings,
                   viewVars, geminiVars>>

\* handleSave of the modal: onSave with Number(field) of every field
handleSave ==
    /\ settingsDraft # Null
    /\ SaveSettings(Val(settingsDraft))

\* onClose
CloseSettings ==
    /\ settingsDraft # Null
    /\ settingsDraft' = Null
    /\ UNCHANGED <<appVars, histVars, fnVars, seasonalPeakThresholdPct,
                   volatilityCVThresholdPct, geminiApiKey, storedSettings,
                   viewVars, geminiVars>>

\* loadSettingsFromLocalStorage: JSON.parse of what was saved, as it is
loadSettingsFromLocalStorage == storedSettings

\* The data sources of all metadata entries of the saved store, as
\* initializeLocalStorage tells them.
SavedDataSourceType(savedTrendData) ==
    LET dataSources == UNION {{savedTrendData[k].metadataEntries[i].dataSource :
                                  i \in 1 .. Len(savedTrendData[k].metadataEntries)} :
                              k \in DOMAIN savedTrendData}
    IN  IF "api" \in dataSources /\ "csv" \in dataSources THEN "mixed"
        ELSE IF "api" \in dataSources THEN "api"
        ELSE "csv"

\* A reload of the page: every state is declared anew, the handlers that
\* were suspended are gone, and initializeLocalStorage takes over the saved
\* settings and the saved store; the recomputation runs on what was loaded.
ReloadPage ==
    /\ \E loaded \in {IF loadSettingsFromLocalStorage # Null
                       THEN Val(loadSettingsFromLocalStorage)
                       ELSE [analysisWindow |-> DEFAULT_ANALYSIS_WINDOW_MONTHS,
                             maPoints |-> DEFAULT_MA_WINDOW_POINTS,
                             seasonalThreshold |-> DEFAULT_SEASONAL_PEAK_THRESHOLD_PCT,
                             volatilityThreshold |-> DEFAULT_VOLATILITY_CV_THRESHOLD_PCT,
                             geminiApiKey |-> DEFAULT_GEMINI_API_KEY]} :
           /\ analysisWindowMonths' = loaded.analysisWindow
           /\ movingAverageWindowPoints' = loaded.maPoints
           /\ seasonalPeakThresholdPct' = loaded.seasonalThreshold
           /\ volatilityCVThresholdPct' = loaded.volatilityThreshold
           /\ geminiApiKey' = loaded.geminiApiKey
    /\ settingsDraft' = Null
    /\ searchTerm' = ""
    /\ activePeakMonthFilter' = Null
    /\ geminiAnalysisResult' = Null
    /\ isGeminiAnalysisModalOpen' = FALSE
    /\ \E savedTrendData \in {loadTrendDataFromLocalStorage} :
           /\ rawAggregates' = savedTrendData
           /\ latestOverallDataDate' =
                  IF savedTrendData = Null THEN Null
                  ELSE MaxTimestamp(Val(savedTrendData))
           /\ currentDataSourceType' =
                  IF savedTrendData = Null THEN Null
                  ELSE Some(SavedDataSourceType(Val(savedTrendData)))
    /\ AfterRecompute(Null, rawAggregates', latestOverallDataDate',
                      analysisWindowMonths', movingAverageWindowPoints')
    /\ isLoading' = FALSE
    /\ pending' = EmptyBag
    /\ UNCHANGED <<storedSettings, histVars, fnVars>>

SettingsInit == AppInit /\ fnArgs = Null /\ fnRet = Null

SettingsNext ==
    \/ OpenSettings
    \/ EditSetting
    \/ handleResetDefaults
    \/ handleSave
    \/ CloseSettings
    \/ ReloadPage

SpecSettings == SettingsInit /\ [][SettingsNext]_vars

\* C19: the four settings in effect are always within their recognized
\* ranges: analysisWindowMonths in [6,60], movingAverageWindowPoints in
\* [2,10], seasonalPeakThresholdPct in [5,100], volatilityCVThresholdPct in
\* [10,100] (they start at 24, 3, 25, 35).
C19_SettingsStayInRange ==
    /\ analysisWindowMonths \in MinWindowMonths .. MaxWindowMonths
    /\ movingAverageWindowPoints \in MinMaPoints .. MaxMaPoints
    /\ seasonalPeakThresholdPct \in MinSeasonalThresholdPct .. MaxSeasonalThresholdPct
    /\ volatilityCVThresholdPct \in MinVolatilityThresholdPct .. MaxVolatilityThresholdPct

-----------------------------------------------------------------------------
(* The asynchronous boundary: uploads, fetches and the summarization call  *)
(* of handleGeminiAnalysis, each of which may fail at its await.           *)

\* !geminiApiKey || geminiApiKey === DEFAULT_GEMINI_API_KEY
GeminiKeyMissing == geminiApiKey = "" \/ geminiApiKey = DEFAULT_GEMINI_API_KEY

\* handleGeminiAnalysis: the return for a missing key
GeminiWithoutKey ==
    /\ GeminiKeyMissing
    /\ error' = Some("Please enter your Google Gemini API Key in Settings")
    /\ isGeminiAnalysisModalOpen' = TRUE
    /\ geminiAnalysisResult' = Null
    /\ UNCHANGED <<rawAggregates, latestOverallDataDate, currentDataSourceType,
                   displayableTrends, analysisStartDate, analysisEndDate, isLoading,
                   analysisWindowMonths, movingAverageWindowPoints, pending,
                   histVars, fnVars, settingsVars, viewVars>>

\* handleGeminiAnalysis: the return for an empty record list
GeminiWithoutTrends ==
    /\ ~GeminiKeyMissing
    /\ Len(displayableTrends) = 0
    /\ error' = Some("No trend data available to analyze")
    /\ isGeminiAnalysisModalOpen' = TRUE
    /\ geminiAnalysisResult' = Null
    /\ UNCHANGED <<rawAggregates, latestOverallDataDate, currentDataSourceType,
                   displayableTrends, analysisStartDate, analysisEndDate, isLoading,
                   analysisWindowMonths, movingAverageWindowPoints, pending,
                   histVars, fnVars, settingsVars, viewVars>>

\* handleGeminiAnalysis up to await getGeminiAnalysis(...)
StartGemini ==
    /\ ~isLoading      \* the two analysis buttons are rendered under !isLoading
    /\ ~GeminiKeyMissing
    /\ Len(displayableTrends) # 0
    /\ BagCardinality(pending) < MaxInFlight
    /\ isLoading' = TRUE
    /\ error' = Null
    /\ geminiAnalysisResult' = Null
    /\ pending' = pending (+) SetToBag({[kind |-> "gemini",
                                         hadData |-> rawAggregates # Null]})
    /\ UNCHANGED <<rawAggregates, latestOverallDataDate, currentDataSourceType,
                   displayableTrends, analysisStartDate, analysisEndDate,
                   analysisWindowMonths, movingAverageWindowPoints,
                   histVars, fnVars, settingsVars, viewVars,
                   isGeminiAnalysisModalOpen>>

\* The end of handleGeminiAnalysis with the given result: try or catch, and
\* the finally.
GeminiEnd(result) ==
    \E op \in BagToSet(pending) :
        /\ op.kind = "gemini"
        /\ pending' = pending (-) SetToBag({op})
        /\ geminiAnalysisResult' = Some(result)
        /\ isLoading' = FALSE
        /\ isGeminiAnalysisModalOpen' = TRUE
        /\ UNCHANGED <<rawAggregates, latestOverallDataDate, currentDataSourceType,
                       displayableTrends, analysisStartDate, analysisEndDate, error,
                       analysisWindowMonths, movingAverageWindowPoints,
                       histVars, fnVars, settingsVars, viewVars>>

GeminiDone == GeminiEnd("analysis")

GeminiFail == GeminiEnd("Failed to get AI analysis. Check console for details.")

\* import.meta.env.VITE_GEMINI_API_KEY: not set, or a key
EnvGeminiKeys == {DEFAULT_GEMINI_API_KEY, "AIza-key"}

BoundaryBatches == {<<FileA>>}

BoundaryInit ==
    /\ CoreInit
    /\ \E envKey \in EnvGeminiKeys : UiInit(envKey)
    /\ fnArgs = Null /\ fnRet = Null

BoundaryNext ==
    \/ StartUpload
    \/ UploadDoneOf(BoundaryBatches)
    \/ UploadFail
    \/ StartFetch
    \/ FetchDoneOf(ApiResponses)
    \/ FetchFail
    \/ GeminiWithoutKey
    \/ GeminiWithoutTrends
    \/ StartGemini
    \/ GeminiDone
    \/ GeminiFail

SpecBoundary == BoundaryInit /\ [][BoundaryNext]_vars

\* The failing step changes neither the store nor the latest known date and
\* ends its handler: loading is over and the operation is no longer pending.
FailureLeavesStore ==
    /\ rawAggregates' = rawAggregates
    /\ latestOverallDataDate' = latestOverallDataDate
    /\ isLoading' = FALSE
    /\ BagCardinality(pending') = BagCardinality(pending) - 1

-----------------------------------------------------------------------------
(* The application with its page reloads: the store goes through           *)
(* localStorage and comes back.                                            *)

PersistNext ==
    \/ StartUpload
    \/ UploadAllEmpty
    \/ UploadDone
    \/ UploadFail
    \/ StartFetch
    \/ FetchDone
    \/ FetchFail
    \/ handleClearData
    \/ handleSaveSettings
    \/ ReloadPage

SpecPersist == Init /\ [][PersistNext]_vars

\* C21: writing a store to localStorage and reading it back gives the same
\* store: the same keywords, for each keyword the same value at the same
\* numeric timestamps, and the same metadata entries in the same order with
\* the same report dates.
C21_PersistenceIsExactRoundTrip ==
    rawAggregates # Null =>
        LET store == Val(rawAggregates)
            back == deserializeAggregatedData(serializeAggregatedData(store))
        IN  /\ DOMAIN back = DOMAIN store
            /\ \A k \in DOMAIN store :
                   /\ back[k].keyword = store[k].keyword
                   /\ DOMAIN back[k].pointsMap = DOMAIN store[k].pointsMap
                   /\ \A t \in DOMAIN store[k].pointsMap :
                          back[k].pointsMap[t] = store[k].pointsMap[t]
                   /\ back[k].metadataEntries = store[k].metadataEntries

\* A store of two keywords, one of them with several points and with
\* entries of two reports, is what localStorage gives back.
C21_Witness ==
    /\ rawAggregates # Null
    /\ loadTrendDataFromLocalStorage = rawAggregates
    /\ Cardinality(DOMAIN Val(rawAggregates)) >= 2
    /\ \E k \in DOMAIN Val(rawAggregates) :
           /\ Cardinality(DOMAIN Val(rawAggregates)[k].pointsMap) >= 2
           /\ \E i, j \in 1 .. Len(Val(rawAggregates)[k].metadataEntries) :
                  Val(rawAggregates)[k].metadataEntries[i].reportDate
                      # Val(rawAggregates)[k].metadataEntries[j].reportDate

-----------------------------------------------------------------------------
(* A change of the analysis window alone, on a store loaded at start-up:   *)
(* the settings are saved with a new analysisWindow and the effect runs    *)
(* generateDisplayTrends again.                                            *)

\* The window lengths typed into the settings, one after the other.
WindowSettings == <<DEFAULT_ANALYSIS_WINDOW_MONTHS, 12, 6, 36>>

NextWindowSetting(current) ==
    LET at == CHOOSE i \in 1 .. Len(WindowSettings) : WindowSettings[i] = current
    IN  WindowSettings[(at % Len(WindowSettings)) + 1]

\* handleSaveSettings with a new analysisWindow and every other field as it
\* is, followed by the effect.
ChangeAnalysisWindow ==
    \E analysisWindow \in {NextWindowSetting(analysisWindowMonths)} :
    \E start \in {WindowStart(latestOverallDataDate, analysisWindow)} :
    \E end \in {WindowEnd(latestOverallDataDate)} :
    \E trends \in {generateDisplayTrendsWithStatistics(rawAggregates, start, end,
                       movingAverageWindowPoints, seasonalPeakThresholdPct,
                       volatilityCVThresholdPct)} :
        /\ analysisWindowMonths' = analysisWindow
        /\ storedSettings' = Some([CurrentSettings EXCEPT
                                      !.analysisWindow = analysisWindow])
        /\ settingsDraft' = Null
        /\ displayableTrends' = trends
        /\ analysisStartDate' = start
        /\ analysisEndDate' = end
        /\ error' = EffectError(error, rawAggregates, latestOverallDataDate, trends,
                                start, end, analysisWindow)
        /\ UNCHANGED <<rawAggregates, latestOverallDataDate, currentDataSourceType,
                       isLoading, movingAverageWindowPoints, pending, histVars,
                       fnVars, seasonalPeakThresholdPct, volatilityCVThresholdPct,
                       geminiApiKey, viewVars, geminiVars>>

RewindowNext == ChangeAnalysisWindow

SpecRewindow == FilterInit /\ [][RewindowNext]_vars

\* The fields of a record that are computed from the full series.
FullSeriesFields(trend) ==
    [keyword |-> trend.keyword, allPoints |-> trend.allPoints,
     maPoints |-> trend.maPoints, seasonalIndexes |-> trend.seasonalIndexes,
     primaryPeakMonths |-> trend.primaryPeakMonths]

WindowChangeKeepsFullSeriesOutputs ==
    (/\ analysisWindowMonths' # analysisWindowMonths
     /\ movingAverageWindowPoints' = movingAverageWindowPoints
     /\ seasonalPeakThresholdPct' = seasonalPeakThresholdPct
     /\ volatilityCVThresholdPct' = volatilityCVThresholdPct)
        => /\ rawAggregates' = rawAggregates
           /\ Len(displayableTrends') = Len(displayableTrends)
           /\ \A i \in 1 .. Len(displayableTrends) :
                  FullSeriesFields(displayableTrends'[i])
                      = FullSeriesFields(displayableTrends[i])
           /\ \E before \in {monthPeakCounts} :
              \E rawAfter \in {rawAggregates'} :
              \E startAfter \in {analysisStartDate'} :
              \E endAfter \in {analysisEndDate'} :
              \E after \in {monthPeakCountsOf(rawAfter, startAfter, endAfter,
                                 movingAverageWindowPoints, seasonalPeakThresholdPct,
                                 volatilityCVThresholdPct)} :
                  after = before

\* C22: a step that changes analysisWindowMonths and no other setting leaves
\* the store as it is, leaves the records the same in number and order, and
\* leaves every record's allPoints, maPoints, seasonalIndexes and
\* primaryPeakMonths and the peak tally as they were.
C22_WindowChangeKeepsFullSeriesOutputs ==
    [][WindowChangeKeepsFullSeriesOutputs]_vars

\* The window was changed, and a record has fewer points in the window than in
\* its series while its moving average and its peak months come from all of
\* them.
C22_Witness ==
    /\ analysisWindowMonths # DEFAULT_ANALYSIS_WINDOW_MONTHS
    /\ storedSettings # Null
    /\ \E i \in 1 .. Len(displayableTrends) :
           /\ Len(displayableTrends[i].pointsInAnalysisWindow) > 0
           /\ Len(displayableTrends[i].pointsInAnalysisWindow)
                  < Len(displayableTrends[i].allPoints)
           /\ Len(displayableTrends[i].maPoints)
                  > Len(displayableTrends[i].pointsInAnalysisWindow)
           /\ Len(displayableTrends[i].primaryPeakMonths) > 0

-----------------------------------------------------------------------------
(* The effect of App against a pass made from nothing.                     *)

\* What the monthPeakCounts memo is computed from (its dependency list).
MonthPeakCountsDependencies ==
    <<rawAggregates, analysisStartDate, analysisEndDate, movingAverageWindowPoints,
      seasonalPeakThresholdPct, volatilityCVThresholdPct>>

\* C23: in every state the handlers leave, the record list and the window
\* start and end are what a full pass gives for the store, the latest date
\* and the settings of that state (the window from latestOverallDataDate and
\* analysisWindowMonths, then the projection), and the peak tally, a memo of
\* the projection, is taken from the store, the window and the settings of
\* that pass.
C23_DisplayIsFreshFullPass ==
    \E fresh \in {RecomputeEffect(error, rawAggregates, latestOverallDataDate,
                                   analysisWindowMonths, movingAverageWindowPoints)} :
        /\ displayableTrends = fresh.trends
        /\ analysisStartDate = fresh.start
        /\ analysisEndDate = fresh.end
        /\ MonthPeakCountsDependencies =
               <<rawAggregates, fresh.start, fresh.end, movingAverageWindowPoints,
                 seasonalPeakThresholdPct, volatilityCVThresholdPct>>

\* After a merge into a store that had data and a change of the window
\* length, records are displayed and one of them has points outside the
\* window.
C23_Witness ==
    /\ prevAggs # Null
    /\ analysisWindowMonths # DEFAULT_ANALYSIS_WINDOW_MONTHS
    /\ analysisStartDate # Null
    /\ \E i \in 1 .. Len(displayableTrends) :
           Len(displayableTrends[i].pointsInAnalysisWindow)
               < Len(displayableTrends[i].allPoints)

-----------------------------------------------------------------------------
(* Handlers in flight.  The file input and the fetch button are rendered   *)
(* without a disabled attribute and their handlers start with              *)
(* setIsLoading(true) whatever isLoading holds.                            *)

\* C24: at most one upload, fetch or analysis request is suspended at its
\* await at any time.
C24_AtMostOneInFlight == BagCardinality(pending) <= 1

-----------------------------------------------------------------------------
(* categorizeTrend and trendDirection as a decision table.  A slope is     *)
(* given as the quotient it is computed from: its sign, num and den.       *)

SlopeTenths == {0, 1, 2, 5, 6, 10}

SlopeChoices ==
    {[neg |-> neg, num |-> num, den |-> 10] : neg \in BOOLEAN, num \in SlopeTenths}
        \ {[neg |-> TRUE, num |-> 0, den |-> 10]}

ApplicableMomenta == {"gaining", "stable", "fading"}

\* 'N/A', and values at, next to and away from a threshold of 35 (hundredths)
CvChoices == {Null, Some(1000), Some(3500), Some(3501)}

\* The slope as calculateLinearRegressionSlope returns it: the double num / den
SlopeOfQuotient(s) ==
    Some([neg |-> s.neg, abs |-> DoubleDivInt(DoubleFromInt(s.num), s.den)])

CategoryInit ==
    /\ AppInit
    /\ fnArgs \in {Some([slope |-> s, momentum |-> m, cv |-> cv,
                         volatilityCVThresholdPct |-> t]) :
                      s \in SlopeChoices, m \in ApplicableMomenta,
                      cv \in CvChoices, t \in VolatilityChoices}
    /\ fnRet = Null

\* category and trendDirection as generateDisplayTrends takes them
Categorize ==
    /\ fnArgs # Null /\ fnRet = Null
    /\ \E slope \in {SlopeOfQuotient(Val(fnArgs).slope)} :
           fnRet' = Some([trendCategory |->
                              categorizeTrend(slope, Val(fnArgs).momentum,
                                              Val(fnArgs).cv,
                                              Val(fnArgs).volatilityCVThresholdPct),
                          trendDirection |-> TrendDirection(slope)])
    /\ UNCHANGED <<appVars, histVars, fnArgs, uiVars>>

CategoryNext == Categorize

SpecCategory == CategoryInit /\ [][CategoryNext]_vars

\* The band of the quotient num / den, by exact arithmetic.
SlopeBand(s) ==
    IF ~s.neg /\ 2 * s.num > s.den THEN "above 0.5"
    ELSE IF ~s.neg /\ 10 * s.num > s.den THEN "0.1 to 0.5"
    ELSE IF s.neg /\ 2 * s.num > s.den THEN "below -0.5"
    ELSE IF s.neg /\ 10 * s.num > s.den THEN "-0.5 to -0.1"
    ELSE "-0.1 to 0.1"

SlopeBands == {"above 0.5", "0.1 to 0.5", "-0.1 to 0.1", "-0.5 to -0.1", "below -0.5"}

BaseCategoryTable ==
    [band \in SlopeBands |->
        CASE band = "above 0.5" ->
                 [gaining |-> "Accelerating Growth", stable |-> "Strong Steady Growth",
                  fading |-> "Slowing Growth"]
          [] band = "0.1 to 0.5" ->
                 [gaining |-> "Moderate Growth, Gaining", stable |-> "Steady Growth",
                  fading |-> "Growth Stalling"]
          [] band = "-0.1 to 0.1" ->
                 [gaining |-> "Recent Uptick from Flat", stable |-> "Stable / Flat",
                  fading |-> "Recent Dip from Flat"]
          [] band = "-0.5 to -0.1" ->
                 [gaining |-> "Decline Softening", stable |-> "Steady Decline",
                  fading |-> "Moderate Decline, Fading"]
          [] band = "below -0.5" ->
                 [gaining |-> "Decline Slowing", stable |-> "Strong Steady Decline",
                  fading |-> "Accelerating Decline"]]

BaseCategories ==
    {BaseCategoryTable[band][momentum] : band \in SlopeBands, momentum \in ApplicableMomenta}

\* The label without its "Volatile " prefix.
BaseLabel(label) ==
    IF Len(label) > 9 /\ SubSeq(label, 1, 9) = "Volatile "
    THEN SubSeq(label, 10, Len(label)) ELSE label

\* The base labels categorizeTrend gives over the slopes and momenta.
ProducedBaseCategories ==
    {BaseLabel(categorizeTrend(SlopeOfQuotient(s), m, Null,
                               DEFAULT_VOLATILITY_CV_THRESHOLD_PCT)) :
        s \in SlopeChoices, m \in ApplicableMomenta}

\* The label is the table's entry for the band and the momentum, prefixed
\* exactly when cv is a number above the threshold; the direction is that
\* of the band.
LabelFollowsTable ==
    fnRet # Null =>
        LET args == Val(fnArgs)
            band == SlopeBand(args.slope)
            base == BaseCategoryTable[band][args.momentum]
            isVolatile == args.cv # Null
                              /\ Val(args.cv) > 100 * args.volatilityCVThresholdPct
        IN  /\ Val(fnRet).trendCategory
                   = (IF isVolatile THEN "Volatile " \o base ELSE base)
            /\ BaseLabel(Val(fnRet).trendCategory) \in BaseCategories
            /\ Val(fnRet).trendDirection
                   = (IF band \in {"above 0.5", "0.1 to 0.5"} THEN "upward"
                      ELSE IF band \in {"below -0.5", "-0.5 to -0.1"} THEN "downward"
                      ELSE "flat")

\* C25 as stated: with slope and momentum applicable the label follows the
\* table of slope band, momentum and volatility flag, the direction follows
\* the band, and the base categories are exactly 9.
C25_NineBaseCategories ==
    /\ LabelFollowsTable
    /\ Cardinality(ProducedBaseCategories) = 9

\* C25 amended: with slope and momentum applicable the label follows the
\* table of slope band (split at -0.5, -0.1, 0.1, 0.5), momentum and
\* volatility flag, with the prefix "Volatile " exactly when cv is a number
\* above the threshold; the base categories are exactly 15, one for each
\* band and momentum; the direction is upward above 0.1, downward below -0.1
\* and flat otherwise.
C25_FifteenBaseCategories ==
    /\ LabelFollowsTable
    /\ ProducedBaseCategories = BaseCategories
    /\ Cardinality(ProducedBaseCategories) = 15

\* A slope of exactly 0.1 with a CV just above the threshold: a volatile
\* label of the flat band.
C25_Witness ==
    /\ fnRet # Null
    /\ Val(fnArgs).slope = [neg |-> FALSE, num |-> 1, den |-> 10]
    /\ Val(fnArgs).cv = Some(3501)
    /\ Val(fnRet).trendCategory = "Volatile Recent Uptick from Flat"
    /\ Val(fnRet).trendDirection = "flat"

-----------------------------------------------------------------------------
(* Series without points.                                                  *)

\* C26: every keyword series of the store has at least one point, and the
\* record list has one record for each keyword of the store.
C26_EverySeriesHasPoints ==
    rawAggregates # Null =>
        /\ \A k \in DOMAIN Val(rawAggregates) :
               DOMAIN Val(rawAggregates)[k].pointsMap # {}
        /\ Len(displayableTrends) = Cardinality(DOMAIN Val(rawAggregates))

-----------------------------------------------------------------------------
(* The latest known observation date against the points of the store.      *)

StoreHoldsPoints ==
    /\ rawAggregates # Null
    /\ \E k \in DOMAIN Val(rawAggregates) : DOMAIN Val(rawAggregates)[k].pointsMap # {}

LatestDateIsNewestPoint ==
    StoreHoldsPoints => latestOverallDataDate = MaxTimestamp(Val(rawAggregates))

LatestDateNeverDecreases ==
    (latestOverallDataDate # Null /\ latestOverallDataDate' # Null)
        => Val(latestOverallDataDate') >= Val(latestOverallDataDate)

\* C27: whenever the store holds a point, latestOverallDataDate is the
\* greatest timestamp of the points in the store (not null, not older, not
\* newer), and from one clear to the next it never decreases.
C27_LatestDateIsNewestPoint ==
    []LatestDateIsNewestPoint /\ [][LatestDateNeverDecreases]_vars

-----------------------------------------------------------------------------
(* Clear All Data against the handlers in flight.                          *)

\* The step that empties a store: handleClearData.
ClearEmptiesEverything ==
    (rawAggregates # Null /\ rawAggregates' = Null)
        => /\ latestOverallDataDate' = Null
           /\ analysisStartDate' = Null
           /\ analysisEndDate' = Null
           /\ displayableTrends' = <<>>
           /\ activePeakMonthFilter' = Null

\* A handler that started on a store that was not null and finds the store
\* null was in flight when the store was cleared; its end leaves the store
\* without keywords.
InFlightAtClearDoesNotRepopulate ==
    \A op \in BagToSet(pending) :
        (op.hadData /\ rawAggregates = Null /\ pending' = pending (-) SetToBag({op}))
            => (rawAggregates' = Null \/ DOMAIN Val(rawAggregates') = {})

\* C28: a clear leaves the store null, the latest date and the window null,
\* the record list empty and no month filter, and an upload or fetch that
\* was in flight when the store was cleared does not fill the store again.
C28_ClearIsNotUndoneByInFlight ==
    [][ClearEmptiesEverything /\ InFlightAtClearDoesNotRepopulate]_vars

-----------------------------------------------------------------------------
(* The loading flag against the handlers in flight.                        *)

\* C29: isLoading is true whenever an upload, a fetch or an analysis request
\* is in flight, and false when none is.
C29_LoadingWhileInFlight == isLoading <=> pending # EmptyBag

-----------------------------------------------------------------------------
(* The data source type shown against the metadata entries of the store.   *)

\* The data sources named by the metadata entries of the store.
StoreDataSources ==
    UNION {{Val(rawAggregates)[k].metadataEntries[i].dataSource :
                i \in 1 .. Len(Val(rawAggregates)[k].metadataEntries)} :
           k \in DOMAIN Val(rawAggregates)}

DataSourceTypeAgreesWithStore ==
    IF rawAggregates = Null THEN currentDataSourceType = Null
    ELSE currentDataSourceType =
             Some(IF {"csv", "api"} \subseteq StoreDataSources THEN "mixed"
                  ELSE IF StoreDataSources = {"api"} THEN "api"
                  ELSE "csv")

MixedStaysUntilClear ==
    currentDataSourceType = Some("mixed")
        => (currentDataSourceType' = Some("mixed") \/ rawAggregates' = Null)

\* C30: currentDataSourceType is null exactly when the store is null, 'mixed'
\* exactly when the metadata entries of the store include a csv and an api
\* entry, 'api' when they include api entries only and 'csv' otherwise; once
\* 'mixed' it stays 'mixed' until the store is cleared.
C30_DataSourceTypeAgreesWithStore ==
    []DataSourceTypeAgreesWithStore /\ [][MixedStaysUntilClear]_vars

====
